---- MODULE Spec2Model ----
(***************************************************************************)
(* Model of the Suriza (Slitherlink) solver: the cell grid, the edge grid  *)
(* with its navigation primitives, the three deduction families (local     *)
(* fill, corner constraints, loop closure), the driver loop of solve and   *)
(* the route extraction.                                                    *)
(*                                                                         *)
(* Conventions.                                                            *)
(*  - A Rust Vec is a function with domain 0..n-1, so that indices are the *)
(*    indices of the source.                                               *)
(*  - Option<T> is a set: None is {} and Some(x) is {x}.                   *)
(*  - Every routine that returns "changed" and mutates the edge grid is an *)
(*    operator returning a record [changed, edges, panic]: the boolean the *)
(*    source returns, the edge grid after the call, and whether the call   *)
(*    aborted on an out-of-bounds index or an unwrap of None.              *)
(*  - A walk that the source would repeat forever is reported by the walk  *)
(*    operator as diverges = TRUE (the walk is deterministic in the pair   *)
(*    (previous, index), so it never ends once a pair repeats).            *)
(***************************************************************************)
EXTENDS Integers, Sequences, FiniteSets, TLC

VARIABLES cells, edges, pc, last, reports, route, size, object, grbl

vars == <<cells, edges, pc, last, reports, route, size, object, grbl>>

\* ------------------------------------------------------------------ bounds

\* Largest number of cells (width * height) of an input grid of Spec.
MaxCells == 4

\* Width and height of the input grids of SpecWide.
WideWidth == 3

WideHeight == 2

\* The largest width and height of the sizes given to create_empty in
\* SpecCreate.
MaxSide == 7

\* ------------------------------------------------------------- data model

CellValues == {"Any", "Zero", "One", "Two", "Three"}

EdgeValues == {"Unknown", "X", "Line"}

None == {}

Some(x) == {x}

Unwrap(o) == CHOOSE x \in o : TRUE

VecLen(v) == Cardinality(DOMAIN v)

\* Direction::iter_all: North, East, South, West.
iter_all == <<"North", "East", "South", "West">>

CornerDirection_ALL ==
    << [horizontal |-> "East", vertical |-> "North"],
       [horizontal |-> "East", vertical |-> "South"],
       [horizontal |-> "West", vertical |-> "South"],
       [horizontal |-> "West", vertical |-> "North"] >>

HorizontalDirection_get_opposite(d) == IF d = "East" THEN "West" ELSE "East"

VerticalDirection_get_opposite(d) == IF d = "North" THEN "South" ELSE "North"

get_opposite(direction) ==
    [horizontal |-> HorizontalDirection_get_opposite(direction.horizontal),
     vertical |-> VerticalDirection_get_opposite(direction.vertical)]

\* get_adjacent that returns the direction itself and its opposite: the two
\* corners on the diagonal, not the two beside it.
get_adjacent_diagonal(direction) == <<direction, get_opposite(direction)>>

get_adjacent(direction) ==
    LET a == << [horizontal |-> "East", vertical |-> "South"],
                [horizontal |-> "West", vertical |-> "North"] >>
        b == << [horizontal |-> "East", vertical |-> "North"],
                [horizontal |-> "West", vertical |-> "South"] >>
    IN  IF direction = a[1] \/ direction = a[2] THEN b ELSE a

\* CornerDirection::into_iter: the horizontal direction, then the vertical.
corner_into_iter(direction) == <<direction.horizontal, direction.vertical>>

get_expected_line_count(cell) ==
    CASE cell = "Any" -> None
      [] cell = "Zero" -> Some(0)
      [] cell = "One" -> Some(1)
      [] cell = "Two" -> Some(2)
      [] cell = "Three" -> Some(3)

\* ------------------------------------------------------------------ cells

get_size(cs) == [width |-> VecLen(cs.rows[0]), height |-> VecLen(cs.rows)]

index_cells(cs) ==
    LET dim == get_size(cs)
    IN  [i \in 1..(dim.height * dim.width) |->
            [row |-> (i - 1) \div dim.width, column |-> (i - 1) % dim.width]]

CellInBounds(cs, index) ==
    /\ index.row \in DOMAIN cs.rows
    /\ index.column \in DOMAIN cs.rows[index.row]

CellAt(cs, index) == cs.rows[index.row][index.column]

\* ------------------------------------------------------------- cell index

CellIndex_index_intersection(index, direction) ==
    [row |-> IF direction.vertical = "North" THEN index.row ELSE index.row + 1,
     column |-> IF direction.horizontal = "East" THEN index.column + 1
                ELSE index.column]

CellIndex_index_edge(index, direction) ==
    CASE direction = "East" ->
            [direction |-> "Vertical", row |-> index.row, column |-> index.column + 1]
      [] direction = "West" ->
            [direction |-> "Vertical", row |-> index.row, column |-> index.column]
      [] direction = "North" ->
            [direction |-> "Horizontal", row |-> index.row, column |-> index.column]
      [] direction = "South" ->
            [direction |-> "Horizontal", row |-> index.row + 1, column |-> index.column]

CellIndex_index_edges(index) ==
    [i \in 1..4 |-> Some(CellIndex_index_edge(index, iter_all[i]))]

CellIndex_index_corner_edges(index, direction) ==
    [i \in 1..2 |-> Some(CellIndex_index_edge(index, corner_into_iter(direction)[i]))]

\* ------------------------------------------------------------- edge index

get_intersections(index) ==
    LET next == IF index.direction = "Horizontal"
                THEN [row |-> index.row, column |-> index.column + 1]
                ELSE [row |-> index.row + 1, column |-> index.column]
    IN  << [row |-> index.row, column |-> index.column], next >>

\* ------------------------------------------------------------------ edges

\* The asserts of create_empty with only the width tested.
create_empty_panics_width_only(s) == s.width = 0

\* The two asserts of create_empty: it panics when the width or the height
\* is zero.
create_empty_panics(s) == s.width = 0 \/ s.height = 0

\* create_empty with the width and the height exchanged.
create_empty_transposed(s) ==
    [horizontal |-> [r \in 0..s.width |-> [c \in 0..(s.height - 1) |-> "Unknown"]],
     vertical |-> [r \in 0..(s.width - 1) |-> [c \in 0..s.height |-> "Unknown"]]]

\* The grid create_empty builds once the asserts have passed.
create_empty(s) ==
    [horizontal |-> [r \in 0..s.height |-> [c \in 0..(s.width - 1) |-> "Unknown"]],
     vertical |-> [r \in 0..(s.height - 1) |-> [c \in 0..s.width |-> "Unknown"]]]

EdgeRows(es, index) ==
    IF index.direction = "Horizontal" THEN es.horizontal ELSE es.vertical

EdgeInBounds(es, index) ==
    /\ index.row \in DOMAIN EdgeRows(es, index)
    /\ index.column \in DOMAIN EdgeRows(es, index)[index.row]

EdgeAt(es, index) == EdgeRows(es, index)[index.row][index.column]

EdgeSet(es, index, value) ==
    IF index.direction = "Horizontal"
    THEN [es EXCEPT !.horizontal[index.row][index.column] = value]
    ELSE [es EXCEPT !.vertical[index.row][index.column] = value]

\* index_adjacent_edge without the is_valid tests of East and South.
index_adjacent_edge_unchecked(es, index, direction) ==
    CASE direction = "East" ->
            Some([direction |-> "Horizontal", row |-> index.row,
                  column |-> index.column])
      [] direction = "West" ->
            IF index.column = 0 THEN None
            ELSE Some([direction |-> "Horizontal", row |-> index.row,
                       column |-> index.column - 1])
      [] direction = "North" ->
            IF index.row = 0 THEN None
            ELSE Some([direction |-> "Vertical", row |-> index.row - 1,
                       column |-> index.column])
      [] direction = "South" ->
            Some([direction |-> "Vertical", row |-> index.row,
                  column |-> index.column])

index_adjacent_edge(es, index, direction) ==
    CASE direction = "East" ->
            IF index.column < VecLen(es.horizontal[0])
            THEN Some([direction |-> "Horizontal", row |-> index.row,
                       column |-> index.column])
            ELSE None
      [] direction = "West" ->
            IF index.column = 0 THEN None
            ELSE Some([direction |-> "Horizontal", row |-> index.row,
                       column |-> index.column - 1])
      [] direction = "North" ->
            IF index.row = 0 THEN None
            ELSE Some([direction |-> "Vertical", row |-> index.row - 1,
                       column |-> index.column])
      [] direction = "South" ->
            IF index.row < VecLen(es.vertical)
            THEN Some([direction |-> "Vertical", row |-> index.row,
                       column |-> index.column])
            ELSE None

index_adjacent_edges(es, index) ==
    [i \in 1..4 |-> index_adjacent_edge(es, index, iter_all[i])]

index_adjacent_corner_edges(es, index, direction) ==
    << index_adjacent_edge(es, index, direction.horizontal),
       index_adjacent_edge(es, index, direction.vertical) >>

index_edges(es) ==
    LET hh == VecLen(es.horizontal)
        hw == VecLen(es.horizontal[0])
        vh == VecLen(es.vertical)
        vw == VecLen(es.vertical[0])
    IN  [i \in 1..(hh * hw) |->
            [direction |-> "Horizontal", row |-> (i - 1) \div hw,
             column |-> (i - 1) % hw]]
        \o
        [i \in 1..(vh * vw) |->
            [direction |-> "Vertical", row |-> (i - 1) \div vw,
             column |-> (i - 1) % vw]]

index_intersections(es) ==
    LET height == VecLen(es.vertical)
        width == VecLen(es.horizontal[0])
    IN  [i \in 1..((height + 1) * (width + 1)) |->
            [row |-> (i - 1) \div (width + 1), column |-> (i - 1) % (width + 1)]]

index_adjacent_intersection(index, direction) ==
    CASE direction = "East" -> Some([row |-> index.row, column |-> index.column + 1])
      [] direction = "West" ->
            IF index.column = 0 THEN None
            ELSE Some([row |-> index.row, column |-> index.column - 1])
      [] direction = "North" ->
            IF index.row = 0 THEN None
            ELSE Some([row |-> index.row - 1, column |-> index.column])
      [] direction = "South" -> Some([row |-> index.row + 1, column |-> index.column])

index_diagonally_from_intersection(es, index, direction) ==
    LET row == IF direction.vertical = "North"
               THEN (IF index.row = 0 THEN None ELSE Some(index.row - 1))
               ELSE (IF index.row < VecLen(es.vertical) THEN Some(index.row) ELSE None)
        column == IF direction.horizontal = "West"
                  THEN (IF index.column = 0 THEN None ELSE Some(index.column - 1))
                  ELSE (IF index.column < VecLen(es.horizontal[0])
                        THEN Some(index.column) ELSE None)
    IN  IF row = None \/ column = None THEN None
        ELSE Some([row |-> Unwrap(row), column |-> Unwrap(column)])

\* ------------------------------------------------------- routine results

NoChange(es) == [changed |-> FALSE, edges |-> es, panic |-> FALSE]

Changed(es) == [changed |-> TRUE, edges |-> es, panic |-> FALSE]

Abort(es) == [changed |-> FALSE, edges |-> es, panic |-> TRUE]

Min(S) == CHOOSE x \in S : \A y \in S : x <= y

\* -------------------------------------------------- counting and setting

\* count_edges that counts only the X edges of the grid: an absent index
\* is not counted.
count_edges_on_grid(es, indices) ==
    LET present == {i \in DOMAIN indices : indices[i] # None}
        bad == {i \in present : ~EdgeInBounds(es, Unwrap(indices[i]))}
        lines == {i \in present \ bad : EdgeAt(es, Unwrap(indices[i])) = "Line"}
        xs == {i \in present \ bad : EdgeAt(es, Unwrap(indices[i])) = "X"}
    IN  [line_count |-> Cardinality(lines),
         x_count |-> Cardinality(xs),
         panic |-> bad # {}]

\* indices is a sequence of Option<EdgeIndex>; an absent index counts as X.
count_edges(es, indices) ==
    LET present == {i \in DOMAIN indices : indices[i] # None}
        bad == {i \in present : ~EdgeInBounds(es, Unwrap(indices[i]))}
        lines == {i \in present \ bad : EdgeAt(es, Unwrap(indices[i])) = "Line"}
        xs == {i \in present \ bad : EdgeAt(es, Unwrap(indices[i])) = "X"}
    IN  [line_count |-> Cardinality(lines),
         x_count |-> Cardinality(xs) + Cardinality(DOMAIN indices \ present),
         panic |-> bad # {}]

\* set_edges that goes on after the first Unknown edge and sets them all.
set_edges_all(es, indices, value) ==
    LET unknown == {Unwrap(indices[i]) : i \in
                       {j \in DOMAIN indices :
                           /\ indices[j] # None
                           /\ EdgeInBounds(es, Unwrap(indices[j]))
                           /\ EdgeAt(es, Unwrap(indices[j])) = "Unknown"}}
        put(direction, rows) ==
            [r \in DOMAIN rows |-> [c \in DOMAIN rows[r] |->
                IF [direction |-> direction, row |-> r, column |-> c] \in unknown
                THEN value ELSE rows[r][c]]]
    IN  IF unknown = {} THEN NoChange(es)
        ELSE Changed([horizontal |-> put("Horizontal", es.horizontal),
                      vertical |-> put("Vertical", es.vertical)])

\* set_edges without the match on Edge::Unknown: it overwrites the first
\* present edge whatever its value.
set_edges_overwrite(es, indices, value) ==
    LET present == {i \in DOMAIN indices : indices[i] # None}
    IN  IF present = {} THEN NoChange(es)
        ELSE Changed(EdgeSet(es, Unwrap(indices[Min(present)]), value))

\* Iterator::any stops at the first index whose closure returns true: the
\* first present index whose edge is Unknown (or whose lookup aborts).
set_edges(es, indices, value) ==
    LET stop == {i \in DOMAIN indices :
                    /\ indices[i] # None
                    /\ \/ ~EdgeInBounds(es, Unwrap(indices[i]))
                       \/ EdgeAt(es, Unwrap(indices[i])) = "Unknown"}
    IN  IF stop = {} THEN NoChange(es)
        ELSE LET index == Unwrap(indices[Min(stop)])
             IN  IF ~EdgeInBounds(es, index) THEN Abort(es)
                 ELSE Changed(EdgeSet(es, index, value))

\* ------------------------------------------------------------- local fill

\* a || b on routine results (as in algorithm.rs 503-506 and 553-557): b
\* runs, on the edge grid a left, only when a reported no change (and did
\* not abort).
OrElse(r, Then(_)) == IF r.changed \/ r.panic THEN r ELSE Then(r.edges)

\* fill_cell with the two values exchanged: a cell that already has its Line
\* edges gets another Line, a cell that has all its X edges gets another X.
fill_cell_swapped(cs, es, index) ==
    IF ~CellInBounds(cs, index) THEN Abort(es)
    ELSE LET expected_line_count == get_expected_line_count(CellAt(cs, index))
             indices == CellIndex_index_edges(index)
             counts == count_edges(es, indices)
         IN  IF expected_line_count = None THEN NoChange(es)
             ELSE IF counts.panic THEN Abort(es)
             ELSE IF counts.line_count = Unwrap(expected_line_count)
             THEN set_edges(es, indices, "Line")
             ELSE IF counts.x_count = 4 - Unwrap(expected_line_count)
             THEN set_edges(es, indices, "X")
             ELSE NoChange(es)

\* fill_cell without its first branch: a cell that already has all its Line
\* edges is left as it is.
fill_cell_lines_only(cs, es, index) ==
    IF ~CellInBounds(cs, index) THEN Abort(es)
    ELSE LET expected_line_count == get_expected_line_count(CellAt(cs, index))
             indices == CellIndex_index_edges(index)
             counts == count_edges(es, indices)
         IN  IF expected_line_count = None THEN NoChange(es)
             ELSE IF counts.panic THEN Abort(es)
             ELSE IF counts.x_count = 4 - Unwrap(expected_line_count)
             THEN set_edges(es, indices, "Line")
             ELSE NoChange(es)

fill_cell(cs, es, index) ==
    IF ~CellInBounds(cs, index) THEN Abort(es)
    ELSE LET expected_line_count == get_expected_line_count(CellAt(cs, index))
             indices == CellIndex_index_edges(index)
             counts == count_edges(es, indices)
         IN  IF expected_line_count = None THEN NoChange(es)
             ELSE IF counts.panic THEN Abort(es)
             ELSE IF counts.line_count = Unwrap(expected_line_count)
             THEN set_edges(es, indices, "X")
             ELSE IF counts.x_count = 4 - Unwrap(expected_line_count)
             THEN set_edges(es, indices, "Line")
             ELSE NoChange(es)

\* fill_intersection that crosses out the other edges after one Line edge
\* rather than two.
fill_intersection_one(es, index) ==
    LET indices == index_adjacent_edges(es, index)
        counts == count_edges(es, indices)
    IN  IF counts.panic THEN Abort(es)
        ELSE IF counts.line_count = 1 THEN set_edges(es, indices, "X")
        ELSE NoChange(es)

fill_intersection(es, index) ==
    LET indices == index_adjacent_edges(es, index)
        counts == count_edges(es, indices)
    IN  IF counts.panic THEN Abort(es)
        ELSE IF counts.line_count = 2 THEN set_edges(es, indices, "X")
        ELSE NoChange(es)

\* cells.index_cells().any(|index| fill_cell(cells, edges, index)), from
\* position i of the iterator on.
RECURSIVE any_fill_cell(_, _, _, _)
any_fill_cell(cs, es, indices, i) ==
    IF i > Len(indices) THEN NoChange(es)
    ELSE OrElse(fill_cell(cs, es, indices[i]),
                LAMBDA e : any_fill_cell(cs, e, indices, i + 1))

\* edges.index_intersections().any(|index| fill_intersection(edges, index)).
RECURSIVE any_fill_intersection(_, _, _)
any_fill_intersection(es, indices, i) ==
    IF i > Len(indices) THEN NoChange(es)
    ELSE OrElse(fill_intersection(es, indices[i]),
                LAMBDA e : any_fill_intersection(e, indices, i + 1))

fill_certain_values(cs, es) ==
    OrElse(any_fill_cell(cs, es, index_cells(cs), 1),
           LAMBDA e : any_fill_intersection(e, index_intersections(e), 1))

\* ------------------------------------------------------ corner constraints

\* constraint_value without the Line value of a Line constraint: a
\* quadrant with one X edge and one Unknown edge is left alone.
constraint_value_line_unset(constraint, counts) ==
    LET c == <<counts.line_count, counts.x_count>>
    IN  IF \/ (constraint = "Line" /\ c = <<1, 0>>)
           \/ (constraint = "NoCorner" /\ c = <<1, 0>>)
           \/ (constraint = "NoLine" /\ c = <<0, 1>>)
        THEN Some("X")
        ELSE IF constraint = "NoLine" /\ c = <<1, 0>>
        THEN Some("Line")
        ELSE None

\* The value apply_constraint sets in the near quadrant, if any.
constraint_value(constraint, counts) ==
    LET c == <<counts.line_count, counts.x_count>>
    IN  IF \/ (constraint = "Line" /\ c = <<1, 0>>)
           \/ (constraint = "NoCorner" /\ c = <<1, 0>>)
           \/ (constraint = "NoLine" /\ c = <<0, 1>>)
        THEN Some("X")
        ELSE IF \/ (constraint = "Line" /\ c = <<0, 1>>)
                \/ (constraint = "NoLine" /\ c = <<1, 0>>)
        THEN Some("Line")
        ELSE None

RECURSIVE apply_constraint(_, _, _, _, _)
RECURSIVE apply_constraint_to_cell(_, _, _, _, _)

apply_constraint(cs, es, constraint, from, to) ==
    LET near == index_adjacent_corner_edges(es, from, to)
        counts == count_edges(es, near)
        value == constraint_value(constraint, counts)
    IN  IF counts.panic THEN Abort(es)
        ELSE OrElse(IF value = None THEN NoChange(es)
                    ELSE set_edges(es, near, Unwrap(value)),
                    LAMBDA e :
                        LET next_cell == index_diagonally_from_intersection(e, from, to)
                        IN  IF next_cell = None THEN NoChange(e)
                            ELSE apply_constraint_to_cell(cs, e, constraint,
                                                          Unwrap(next_cell), to))

\* apply_constraint_to_cell in which a Line constraint that reaches a Three
\* cell crosses out the far edges.
apply_constraint_to_cell_three_x(cs, es, constraint, index, to) ==
    LET near == CellIndex_index_corner_edges(index, get_opposite(to))
        far == CellIndex_index_corner_edges(index, to)
        next_intersection == CellIndex_index_intersection(index, to)
        counts == count_edges(es, far)
        cell == CellAt(cs, index)
        adjacent_directions == get_adjacent(to)
    IN  IF counts.panic \/ ~CellInBounds(cs, index) THEN Abort(es)
        ELSE CASE cell = "One" ->
                    (CASE constraint = "Line" -> set_edges(es, far, "X")
                       [] constraint = "NoLine" -> set_edges(es, near, "X")
                       [] OTHER -> NoChange(es))
               [] cell = "Two" ->
                    (CASE constraint = "Line" ->
                            IF counts.line_count > 0 THEN set_edges(es, far, "X")
                            ELSE IF counts.x_count > 0 THEN set_edges(es, far, "Line")
                            ELSE apply_constraint(cs, es, constraint,
                                                  next_intersection, to)
                       [] constraint = "NoCorner" ->
                            apply_constraint(cs, es, constraint, next_intersection, to)
                       [] constraint = "NoLine" ->
                            IF counts.x_count > 0 THEN set_edges(es, near, "Line")
                            ELSE OrElse(
                                    apply_constraint(cs, es, "Line",
                                        CellIndex_index_intersection(
                                            index, adjacent_directions[1]),
                                        adjacent_directions[1]),
                                    LAMBDA e1 : OrElse(
                                        apply_constraint(cs, e1, "Line",
                                            CellIndex_index_intersection(
                                                index, adjacent_directions[2]),
                                            adjacent_directions[2]),
                                        LAMBDA e2 :
                                            apply_constraint(cs, e2, "NoLine",
                                                             next_intersection, to))))
               [] cell = "Three" ->
                    (CASE constraint = "Line" -> set_edges(es, far, "X")
                       [] constraint = "NoCorner" -> set_edges(es, far, "Line")
                       [] constraint = "NoLine" ->
                            OrElse(set_edges(es, near, "Line"),
                                   LAMBDA e : apply_constraint(cs, e, "Line",
                                                               next_intersection, to)))
               [] OTHER -> NoChange(es)

apply_constraint_to_cell(cs, es, constraint, index, to) ==
    LET near == CellIndex_index_corner_edges(index, get_opposite(to))
        far == CellIndex_index_corner_edges(index, to)
        next_intersection == CellIndex_index_intersection(index, to)
        counts == count_edges(es, far)
        cell == CellAt(cs, index)
        adjacent_directions == get_adjacent(to)
    IN  IF counts.panic \/ ~CellInBounds(cs, index) THEN Abort(es)
        ELSE CASE cell = "One" ->
                    (CASE constraint = "Line" -> set_edges(es, far, "X")
                       [] constraint = "NoLine" -> set_edges(es, near, "X")
                       [] OTHER -> NoChange(es))
               [] cell = "Two" ->
                    (CASE constraint = "Line" ->
                            IF counts.line_count > 0 THEN set_edges(es, far, "X")
                            ELSE IF counts.x_count > 0 THEN set_edges(es, far, "Line")
                            ELSE apply_constraint(cs, es, constraint,
                                                  next_intersection, to)
                       [] constraint = "NoCorner" ->
                            apply_constraint(cs, es, constraint, next_intersection, to)
                       [] constraint = "NoLine" ->
                            IF counts.x_count > 0 THEN set_edges(es, near, "Line")
                            ELSE OrElse(
                                    apply_constraint(cs, es, "Line",
                                        CellIndex_index_intersection(
                                            index, adjacent_directions[1]),
                                        adjacent_directions[1]),
                                    LAMBDA e1 : OrElse(
                                        apply_constraint(cs, e1, "Line",
                                            CellIndex_index_intersection(
                                                index, adjacent_directions[2]),
                                            adjacent_directions[2]),
                                        LAMBDA e2 :
                                            apply_constraint(cs, e2, "NoLine",
                                                             next_intersection, to))))
               [] cell = "Three" ->
                    (CASE constraint = "Line" -> set_edges(es, far, "Line")
                       [] constraint = "NoCorner" -> set_edges(es, far, "Line")
                       [] constraint = "NoLine" ->
                            OrElse(set_edges(es, near, "Line"),
                                   LAMBDA e : apply_constraint(cs, e, "Line",
                                                               next_intersection, to)))
               [] OTHER -> NoChange(es)

Max(S) == CHOOSE x \in S : \A y \in S : x >= y

\* The depth of the cascade a call of apply_constraint starts: the largest
\* number of calls of apply_constraint_to_cell that are active at one time.
\* No call changes an edge before the one that ends the cascade, so every
\* call of the cascade sees the grid es.
RECURSIVE cascade_depth(_, _, _, _, _)
RECURSIVE cascade_depth_in_cell(_, _, _, _, _)

cascade_depth(cs, es, constraint, from, to) ==
    LET near == index_adjacent_corner_edges(es, from, to)
        counts == count_edges(es, near)
        value == constraint_value(constraint, counts)
        set_value == IF value = None THEN NoChange(es)
                     ELSE set_edges(es, near, Unwrap(value))
        next_cell == index_diagonally_from_intersection(es, from, to)
    IN  IF counts.panic \/ set_value.changed \/ set_value.panic \/ next_cell = None
        THEN 0
        ELSE 1 + cascade_depth_in_cell(cs, es, constraint, Unwrap(next_cell), to)

\* The depth below a call of apply_constraint_to_cell: that of the calls of
\* apply_constraint it makes, in the order it makes them.
cascade_depth_in_cell(cs, es, constraint, index, to) ==
    LET near == CellIndex_index_corner_edges(index, get_opposite(to))
        far == CellIndex_index_corner_edges(index, to)
        next_intersection == CellIndex_index_intersection(index, to)
        counts == count_edges(es, far)
        cell == CellAt(cs, index)
        adjacent_directions == get_adjacent(to)
        adjacent(i) == CellIndex_index_intersection(index, adjacent_directions[i])
        onward(c) == cascade_depth(cs, es, c, next_intersection, to)
    IN  IF counts.panic \/ ~CellInBounds(cs, index) THEN 0
        ELSE CASE cell = "Two" /\ constraint = "Line" ->
                    IF counts.line_count > 0 \/ counts.x_count > 0 THEN 0
                    ELSE onward("Line")
               [] cell = "Two" /\ constraint = "NoCorner" -> onward("NoCorner")
               [] cell = "Two" /\ constraint = "NoLine" ->
                    IF counts.x_count > 0 THEN 0
                    ELSE LET first == cascade_depth(cs, es, "Line", adjacent(1),
                                                    adjacent_directions[1])
                             second == cascade_depth(cs, es, "Line", adjacent(2),
                                                     adjacent_directions[2])
                         IN  IF apply_constraint(cs, es, "Line", adjacent(1),
                                                 adjacent_directions[1]).changed
                             THEN first
                             ELSE IF apply_constraint(cs, es, "Line", adjacent(2),
                                                      adjacent_directions[2]).changed
                             THEN Max({first, second})
                             ELSE Max({first, second, onward("NoLine")})
               [] cell = "Three" /\ constraint = "NoLine" ->
                    IF set_edges(es, near, "Line").changed THEN 0
                    ELSE onward("Line")
               [] OTHER -> 0

\* cell_constraint in which a Three cell is matched on its counts like a Two
\* cell: it emits NoCorner only from one X edge and one Unknown edge.
cell_constraint_three_counted(cell, counts) ==
    LET c == <<counts.line_count, counts.x_count>>
    IN  IF (cell = "One" /\ c = <<0, 2>>) \/ (cell = "Two" /\ c = <<1, 1>>)
        THEN Some("Line")
        ELSE IF (cell = "Two" \/ cell = "Three") /\ c = <<0, 1>>
        THEN Some("NoCorner")
        ELSE None

\* The constraint a clue cell emits from the counts of one of its corners.
cell_constraint(cell, counts) ==
    LET c == <<counts.line_count, counts.x_count>>
    IN  IF (cell = "One" /\ c = <<0, 2>>) \/ (cell = "Two" /\ c = <<1, 1>>)
        THEN Some("Line")
        ELSE IF (cell = "Two" /\ c = <<0, 1>>) \/ cell = "Three"
        THEN Some("NoCorner")
        ELSE None

\* CornerDirection::ALL.iter().any(...) of check_cell_constraints, from
\* position i on.
RECURSIVE any_cell_corner(_, _, _, _)
any_cell_corner(cs, es, index, i) ==
    IF i > Len(CornerDirection_ALL) THEN NoChange(es)
    ELSE LET direction == CornerDirection_ALL[i]
             counts == count_edges(es, CellIndex_index_corner_edges(index, direction))
             constraint == cell_constraint(CellAt(cs, index), counts)
             to == get_opposite(direction)
         IN  IF counts.panic \/ ~CellInBounds(cs, index) THEN Abort(es)
             ELSE OrElse(IF constraint = None THEN NoChange(es)
                         ELSE apply_constraint(cs, es, Unwrap(constraint),
                                  CellIndex_index_intersection(index, to), to),
                         LAMBDA e : any_cell_corner(cs, e, index, i + 1))

check_cell_constraints(cs, es, index) == any_cell_corner(cs, es, index, 1)

\* intersection_constraint without the NoLine case: two X edges in a
\* quadrant emit nothing.
intersection_constraint_no_noline(counts) ==
    LET c == <<counts.line_count, counts.x_count>>
    IN  CASE c = <<1, 0>> -> Some("NoCorner")
          [] c = <<1, 1>> -> Some("Line")
          [] OTHER -> None

\* The constraint an intersection emits from the counts of one quadrant.
intersection_constraint(counts) ==
    LET c == <<counts.line_count, counts.x_count>>
    IN  CASE c = <<1, 0>> -> Some("NoCorner")
          [] c = <<1, 1>> -> Some("Line")
          [] c = <<0, 2>> -> Some("NoLine")
          [] OTHER -> None

RECURSIVE any_intersection_corner(_, _, _, _)
any_intersection_corner(cs, es, index, i) ==
    IF i > Len(CornerDirection_ALL) THEN NoChange(es)
    ELSE LET direction == CornerDirection_ALL[i]
             counts == count_edges(es, index_adjacent_corner_edges(es, index, direction))
             constraint == intersection_constraint(counts)
         IN  IF counts.panic THEN Abort(es)
             ELSE OrElse(IF constraint = None THEN NoChange(es)
                         ELSE apply_constraint(cs, es, Unwrap(constraint), index,
                                               get_opposite(direction)),
                         LAMBDA e : any_intersection_corner(cs, e, index, i + 1))

check_intersection_constraints(cs, es, index) ==
    any_intersection_corner(cs, es, index, 1)

RECURSIVE any_check_cell(_, _, _, _)
any_check_cell(cs, es, indices, i) ==
    IF i > Len(indices) THEN NoChange(es)
    ELSE OrElse(check_cell_constraints(cs, es, indices[i]),
                LAMBDA e : any_check_cell(cs, e, indices, i + 1))

RECURSIVE any_check_intersection(_, _, _, _)
any_check_intersection(cs, es, indices, i) ==
    IF i > Len(indices) THEN NoChange(es)
    ELSE OrElse(check_intersection_constraints(cs, es, indices[i]),
                LAMBDA e : any_check_intersection(cs, e, indices, i + 1))

check_constraints(cs, es) ==
    OrElse(any_check_cell(cs, es, index_cells(cs), 1),
           LAMBDA e : any_check_intersection(cs, e, index_intersections(e), 1))

\* ------------------------------------------------------------- loop check

\* The initial "previous" of the walk of would_close_loop
\* (IntersectionIndex::default()): a value equal to no intersection.
DefaultIntersectionIndex == [row |-> -1, column |-> -1]

is_line(edge) == edge = "Line"

is_unknown(edge) == edge = "Unknown"

\* Direction::iter_all().filter_map(...).next(), from position i on: the
\* first direction with an existing Line edge whose far intersection is not
\* previous_index.
RECURSIVE follow_line_from(_, _, _, _)
follow_line_from(es, previous_index, intersection_index, i) ==
    IF i > Len(iter_all) THEN [next |-> None, panic |-> FALSE]
    ELSE LET direction == iter_all[i]
             edge_index == index_adjacent_edge(es, intersection_index, direction)
             next_index == index_adjacent_intersection(intersection_index, direction)
         IN  IF edge_index = None
             THEN follow_line_from(es, previous_index, intersection_index, i + 1)
             ELSE IF ~EdgeInBounds(es, Unwrap(edge_index))
             THEN [next |-> None, panic |-> TRUE]
             ELSE IF is_line(EdgeAt(es, Unwrap(edge_index)))
             THEN IF next_index = None THEN [next |-> None, panic |-> TRUE]
                  ELSE IF Unwrap(next_index) # previous_index
                  THEN [next |-> next_index, panic |-> FALSE]
                  ELSE follow_line_from(es, previous_index, intersection_index, i + 1)
             ELSE follow_line_from(es, previous_index, intersection_index, i + 1)

\* follow_line without the filter on previous_index: the walk may step back
\* along the edge it came by.
follow_line_back(es, previous_index, intersection_index) ==
    follow_line_from(es, DefaultIntersectionIndex, intersection_index, 1)

follow_line(es, previous_index, intersection_index) ==
    follow_line_from(es, previous_index, intersection_index, 1)

\* The while-let loop of would_close_loop. seen holds the pairs
\* (previous, index) the walk has been in: the walk is a function of the
\* pair, so a repeated pair means the loop never ends.
RECURSIVE walk_to_end(_, _, _, _)
walk_to_end(es, previous, index, seen) ==
    IF <<previous, index>> \in seen
    THEN [index |-> index, diverges |-> TRUE, panic |-> FALSE]
    ELSE LET f == follow_line(es, previous, index)
         IN  IF f.panic THEN [index |-> index, diverges |-> FALSE, panic |-> TRUE]
             ELSE IF f.next = None
             THEN [index |-> index, diverges |-> FALSE, panic |-> FALSE]
             ELSE walk_to_end(es, index, Unwrap(f.next), seen \cup {<<previous, index>>})

\* would_close_loop with the comparison inverted: true when the walk does
\* not end at the other end of the edge.
would_close_loop_inverted(es, edge_index) ==
    LET ends == get_intersections(edge_index)
        w == walk_to_end(es, DefaultIntersectionIndex, ends[1], {})
    IN  [result |-> ~w.diverges /\ ~w.panic /\ w.index # ends[2],
         diverges |-> w.diverges, panic |-> w.panic]

would_close_loop(es, edge_index) ==
    LET ends == get_intersections(edge_index)
        w == walk_to_end(es, DefaultIntersectionIndex, ends[1], {})
    IN  [result |-> ~w.diverges /\ ~w.panic /\ w.index = ends[2],
         diverges |-> w.diverges, panic |-> w.panic]

\* edges.index_edges().any(...) of check_loops, from position i on.
RECURSIVE any_check_loop(_, _, _)
any_check_loop(es, indices, i) ==
    IF i > Len(indices)
    THEN [changed |-> FALSE, edges |-> es, panic |-> FALSE, diverges |-> FALSE]
    ELSE LET index == indices[i]
         IN  IF ~EdgeInBounds(es, index)
             THEN [changed |-> FALSE, edges |-> es, panic |-> TRUE, diverges |-> FALSE]
             ELSE IF ~is_unknown(EdgeAt(es, index))
             THEN any_check_loop(es, indices, i + 1)
             ELSE LET w == would_close_loop(es, index)
                  IN  IF w.panic \/ w.diverges
                      THEN [changed |-> FALSE, edges |-> es, panic |-> w.panic,
                            diverges |-> w.diverges]
                      ELSE IF w.result
                      THEN [changed |-> TRUE, edges |-> EdgeSet(es, index, "X"),
                            panic |-> FALSE, diverges |-> FALSE]
                      ELSE any_check_loop(es, indices, i + 1)

\* check_loops that tests no edge and reports no change.
check_loops_skipped(es) ==
    [changed |-> FALSE, edges |-> es, panic |-> FALSE, diverges |-> FALSE]

check_loops(es) == any_check_loop(es, index_edges(es), 1)

\* ------------------------------------------------------------------ route

\* The find of get_route taken from the back: the last intersection, in
\* row-major order, with an incident Line edge.
first_line_intersection_last(es) ==
    LET indices == index_intersections(es)
        hits == {i \in DOMAIN indices :
                    \E d \in DOMAIN iter_all :
                        LET e == index_adjacent_edge(es, indices[i], iter_all[d])
                        IN  e # None /\ EdgeInBounds(es, Unwrap(e))
                            /\ is_line(EdgeAt(es, Unwrap(e)))}
    IN  IF hits = {} THEN None ELSE Some(indices[-Min({-i : i \in hits})])

\* The find of get_route: the first intersection, in row-major order, with
\* an incident Line edge.
first_line_intersection(es) ==
    LET indices == index_intersections(es)
        hits == {i \in DOMAIN indices :
                    \E d \in DOMAIN iter_all :
                        LET e == index_adjacent_edge(es, indices[i], iter_all[d])
                        IN  e # None /\ EdgeInBounds(es, Unwrap(e))
                            /\ is_line(EdgeAt(es, Unwrap(e)))}
    IN  IF hits = {} THEN None ELSE Some(indices[Min(hits)])

\* The while-let loop of get_route: r is the route so far, as intersections.
RECURSIVE route_walk(_, _, _, _, _)
route_walk(es, previous, index, r, seen) ==
    IF <<previous, index>> \in seen
    THEN [route |-> r, diverges |-> TRUE, panic |-> FALSE]
    ELSE LET f == follow_line(es, previous, index)
         IN  IF f.panic THEN [route |-> r, diverges |-> FALSE, panic |-> TRUE]
             ELSE IF f.next = None \/ f.next = Some(r[1])
             THEN [route |-> r, diverges |-> FALSE, panic |-> FALSE]
             ELSE route_walk(es, index, Unwrap(f.next), Append(r, Unwrap(f.next)),
                             seen \cup {<<previous, index>>})

\* get_route without the push of the first pair at the end.
get_route_unclosed(es) ==
    LET start == first_line_intersection(es)
    IN  IF start = None THEN [route |-> <<>>, diverges |-> FALSE, panic |-> TRUE]
        ELSE LET w == route_walk(es, [row |-> 0, column |-> 0], Unwrap(start),
                                 <<Unwrap(start)>>, {})
                 pairs == [i \in 1..Len(w.route) |->
                              <<w.route[i].column, w.route[i].row>>]
             IN  [route |-> IF w.diverges \/ w.panic THEN <<>> ELSE pairs,
                  diverges |-> w.diverges, panic |-> w.panic]

\* get_route: the find, the walk, the map to (column, row) pairs and the
\* push of the first pair; the unwrap of the find panics when no
\* intersection has a Line edge.
get_route(es) ==
    LET start == first_line_intersection(es)
    IN  IF start = None THEN [route |-> <<>>, diverges |-> FALSE, panic |-> TRUE]
        ELSE LET w == route_walk(es, [row |-> 0, column |-> 0], Unwrap(start),
                                 <<Unwrap(start)>>, {})
                 pairs == [i \in 1..Len(w.route) |->
                              <<w.route[i].column, w.route[i].row>>]
             IN  [route |-> IF w.diverges \/ w.panic THEN <<>>
                            ELSE Append(pairs, pairs[1]),
                  diverges |-> w.diverges, panic |-> w.panic]

\* ----------------------------------------------------------------- driver

\* The input grids of Spec: every rectangle of at most MaxCells cells, with
\* every clue in every cell.
Sizes ==
    {s \in [width : 1..MaxCells, height : 1..MaxCells] : s.width * s.height <= MaxCells}

Grids(dim, values) ==
    [rows : [0..(dim.height - 1) -> [0..(dim.width - 1) -> values]]]

NoCall == [routine |-> "none", changed |-> FALSE]

\* No Python object: the puzzle is already a Cells.
NoObject == <<>>

\* No GRBL object: no connection to a plotter is open.
NoGRBL == <<>>

\* The state in which the loop of solve starts on the grid cells.
Start ==
    /\ object = NoObject
    /\ grbl = NoGRBL
    /\ size = get_size(cells)
    /\ edges = create_empty(size)
    /\ pc = "fill_certain_values"
    /\ last = NoCall
    /\ reports = <<>>
    /\ route = <<>>

Init ==
    /\ \E dim \in Sizes : cells \in Grids(dim, CellValues)
    /\ Start

\* The input grids of SpecWide: the grids of WideWidth by WideHeight cells
\* without Zero and One clues.
InitWide ==
    /\ cells \in Grids([width |-> WideWidth, height |-> WideHeight],
                       {"Any", "Two", "Three"})
    /\ Start

\* solve with the three reports combined without short circuit: the pass
\* goes on to the next routine whatever the report.
Call_no_restart(routine, r, next_pc) ==
    /\ edges' = r.edges
    /\ last' = [routine |-> routine, changed |-> r.changed]
    /\ reports' = IF r.changed THEN <<>> ELSE Append(reports, FALSE)
    /\ pc' = IF r.panic THEN "abort" ELSE next_pc
    /\ UNCHANGED <<cells, route, size, object, grbl>>

\* One call of a deduction routine by the loop of solve: r is what the call
\* returned, next_pc the routine the driver calls when it reported no change.
Call(routine, r, next_pc) ==
    /\ edges' = r.edges
    /\ last' = [routine |-> routine, changed |-> r.changed]
    /\ reports' = IF r.changed THEN <<>> ELSE Append(reports, FALSE)
    /\ pc' = IF r.panic THEN "abort"
             ELSE IF r.changed THEN "fill_certain_values"
             ELSE next_pc
    /\ UNCHANGED <<cells, route, size, object, grbl>>

FillCertainValues ==
    /\ pc = "fill_certain_values"
    /\ Call("fill_certain_values", fill_certain_values(cells, edges), "check_constraints")

CheckConstraints ==
    /\ pc = "check_constraints"
    /\ Call("check_constraints", check_constraints(cells, edges), "check_loops")

\* The last call of a pass: when it reports no change the loop breaks and
\* solve returns the edge grid; a walk that never ends leaves solve hanging.
CheckLoops ==
    /\ pc = "check_loops"
    /\ LET r == check_loops(edges)
       IN  IF r.diverges
           THEN /\ pc' = "hang"
                /\ last' = [routine |-> "check_loops", changed |-> FALSE]
                /\ UNCHANGED <<cells, edges, reports, route, size, object, grbl>>
           ELSE Call("check_loops", r, "done")

\* lib.rs solve: the route of the grid returned by algorithm::solve.
GetRoute ==
    /\ pc = "done"
    /\ LET r == get_route(edges)
       IN  /\ route' = r.route
           /\ pc' = IF r.panic THEN "route_abort"
                    ELSE IF r.diverges THEN "route_hang"
                    ELSE "routed"
    /\ last' = [routine |-> "get_route", changed |-> FALSE]
    /\ UNCHANGED <<cells, edges, reports, size, object, grbl>>

Next == FillCertainValues \/ CheckConstraints \/ CheckLoops \/ GetRoute

Spec == Init /\ [][Next]_vars

SpecWide == InitWide /\ [][Next]_vars

\* ---------------------------------------------------- the test drawings

\* The drawings of the end-to-end tests, as unindent leaves them: a Vec of
\* lines, each line the sequence of its characters.

\* solves_basic_puzzle, algorithm.rs 120-132.
Drawing1 ==
    <<<<"+", "-", "+", "-", "+", " ", "+", "-", "+", "-", "+">>,
      <<"|", " ", " ", " ", "|", " ", "|", " ", " ", " ", "|">>,
      <<"+", "-", "+", " ", "+", " ", "+", "-", "+", " ", "+">>,
      <<" ", "3", "|", "2", "|", "1", " ", "3", "|", " ", "|">>,
      <<"+", "-", "+", " ", "+", " ", "+", "-", "+", " ", "+">>,
      <<"|", "3", " ", " ", "|", " ", "|", " ", " ", " ", "|">>,
      <<"+", "-", "+", " ", "+", "-", "+", " ", "+", "-", "+">>,
      <<" ", "2", "|", " ", " ", " ", " ", "2", "|">>,
      <<"+", " ", "+", "-", "+", " ", "+", "-", "+", " ", "+">>,
      <<" ", "0", " ", "2", "|", " ", "|">>,
      <<"+", " ", "+", " ", "+", "-", "+", " ", "+", " ", "+">>>>

\* solves_closed_loop_puzzle, algorithm.rs 141-153.
Drawing2 ==
    <<<<"+", "-", "+", "-", "+", "-", "+", "-", "+", "-", "+">>,
      <<"|", " ", " ", " ", " ", " ", " ", " ", " ", "3", "|">>,
      <<"+", "-", "+", " ", "+", "-", "+", "-", "+", "-", "+">>,
      <<" ", "3", "|", " ", "|">>,
      <<"+", "-", "+", " ", "+", "-", "+", " ", "+", "-", "+">>,
      <<"|", "3", " ", "0", " ", "3", "|", "2", "|", "3", "|">>,
      <<"+", "-", "+", " ", "+", "-", "+", " ", "+", " ", "+">>,
      <<" ", "3", "|", " ", "|", " ", " ", "2", "|", " ", "|">>,
      <<"+", "-", "+", " ", "+", "-", "+", "-", "+", " ", "+">>,
      <<"|", " ", " ", " ", " ", " ", " ", " ", " ", " ", "|">>,
      <<"+", "-", "+", "-", "+", "-", "+", "-", "+", "-", "+">>>>

\* test_solve[0], algorithm.rs 203-215.
Drawing3 ==
    <<<<"+", "-", "+", "-", "+", "-", "+", "-", "+", "-", "+">>,
      <<"|", "3", " ", "1", " ", " ", " ", " ", " ", "3", "|">>,
      <<"+", "-", "+", " ", "+", " ", "+", "-", "+", "-", "+">>,
      <<" ", " ", "|", " ", " ", " ", "|", "3", " ", "1">>,
      <<"+", " ", "+", "-", "+", " ", "+", "-", "+", " ", "+">>,
      <<" ", " ", " ", " ", "|", " ", " ", " ", "|">>,
      <<"+", "-", "+", " ", "+", "-", "+", " ", "+", "-", "+">>,
      <<"|", " ", "|", " ", " ", " ", "|", "1", " ", "3", "|">>,
      <<"+", " ", "+", "-", "+", "-", "+", " ", "+", "-", "+">>,
      <<"|", "2", " ", "2", " ", "2", " ", "2", "|", "2">>,
      <<"+", "-", "+", "-", "+", "-", "+", "-", "+", " ", "+">>>>

\* test_solve[1], algorithm.rs 216-228.
Drawing4 ==
    <<<<"+", "-", "+", "-", "+", "-", "+", " ", "+", " ", "+">>,
      <<"|", "3", " ", " ", " ", "2", "|">>,
      <<"+", "-", "+", "-", "+", " ", "+", "-", "+", " ", "+">>,
      <<" ", " ", " ", "2", "|", " ", " ", " ", "|">>,
      <<"+", "-", "+", " ", "+", "-", "+", " ", "+", "-", "+">>,
      <<"|", "3", "|", " ", " ", "3", "|", "1", " ", "3", "|">>,
      <<"+", " ", "+", "-", "+", "-", "+", " ", "+", "-", "+">>,
      <<"|", " ", " ", "2", " ", " ", " ", " ", "|">>,
      <<"+", " ", "+", "-", "+", "-", "+", " ", "+", "-", "+">>,
      <<"|", "3", "|", " ", " ", " ", "|", "2", " ", "3", "|">>,
      <<"+", "-", "+", " ", "+", " ", "+", "-", "+", "-", "+">>>>

\* test_solve[2], algorithm.rs 229-241.
Drawing5 ==
    <<<<"+", "-", "+", " ", "+", "-", "+", "-", "+", "-", "+">>,
      <<"|", "3", "|", " ", "|", "2", " ", " ", " ", "3", "|">>,
      <<"+", " ", "+", " ", "+", " ", "+", "-", "+", "-", "+">>,
      <<"|", " ", "|", "3", "|", " ", "|", "3">>,
      <<"+", " ", "+", "-", "+", " ", "+", "-", "+", "-", "+">>,
      <<"|", " ", " ", "1", " ", " ", " ", "1", " ", "2", "|">>,
      <<"+", "-", "+", " ", "+", "-", "+", " ", "+", " ", "+">>,
      <<" ", "3", "|", "2", "|", " ", "|", "1", " ", " ", "|">>,
      <<"+", "-", "+", " ", "+", " ", "+", " ", "+", " ", "+">>,
      <<"|", "3", " ", " ", "|", " ", "|", "2", " ", " ", "|">>,
      <<"+", "-", "+", "-", "+", " ", "+", "-", "+", "-", "+">>>>

\* test_solve[3], algorithm.rs 242-254.
Drawing6 ==
    <<<<"+", "-", "+", "-", "+", " ", "+", "-", "+", "-", "+">>,
      <<"|", " ", " ", " ", "|", " ", "|", " ", " ", " ", "|">>,
      <<"+", " ", "+", "-", "+", " ", "+", "-", "+", " ", "+">>,
      <<"|", "2", "|", "3", " ", "1", " ", "2", "|", " ", "|">>,
      <<"+", " ", "+", "-", "+", "-", "+", " ", "+", " ", "+">>,
      <<"|", " ", " ", " ", " ", "2", "|", "2", "|", " ", "|">>,
      <<"+", " ", "+", "-", "+", " ", "+", " ", "+", " ", "+">>,
      <<"|", " ", "|", "3", "|", " ", "|", " ", "|", " ", "|">>,
      <<"+", " ", "+", " ", "+", " ", "+", "-", "+", " ", "+">>,
      <<"|", "3", "|", " ", "|", "2", " ", " ", " ", " ", "|">>,
      <<"+", "-", "+", " ", "+", "-", "+", "-", "+", "-", "+">>>>

\* test_solve[4], algorithm.rs 255-267.
Drawing7 ==
    <<<<"+", "-", "+", "-", "+", " ", "+", "-", "+", "-", "+">>,
      <<"|", " ", " ", "3", "|", " ", "|", "2", " ", " ", "|">>,
      <<"+", " ", "+", "-", "+", " ", "+", " ", "+", "-", "+">>,
      <<"|", "2", "|", "3", " ", " ", "|", " ", "|">>,
      <<"+", " ", "+", "-", "+", "-", "+", " ", "+", "-", "+">>,
      <<"|", " ", " ", " ", " ", " ", " ", " ", " ", "2", "|">>,
      <<"+", " ", "+", "-", "+", " ", "+", "-", "+", " ", "+">>,
      <<"|", " ", "|", " ", "|", "2", "|", "3", "|", " ", "|">>,
      <<"+", " ", "+", " ", "+", " ", "+", " ", "+", " ", "+">>,
      <<"|", " ", "|", "2", "|", "3", "|", " ", "|", "3", "|">>,
      <<"+", "-", "+", " ", "+", "-", "+", " ", "+", "-", "+">>>>

\* test_solve[5], algorithm.rs 268-280.
Drawing8 ==
    <<<<"+", "-", "+", "-", "+", " ", "+", "-", "+", "-", "+">>,
      <<"|", " ", " ", " ", "|", " ", "|", " ", " ", " ", "|">>,
      <<"+", "-", "+", " ", "+", " ", "+", "-", "+", " ", "+">>,
      <<" ", "3", "|", "2", "|", "1", " ", "3", "|", " ", "|">>,
      <<"+", "-", "+", " ", "+", " ", "+", "-", "+", " ", "+">>,
      <<"|", "3", " ", " ", "|", " ", "|", " ", " ", " ", "|">>,
      <<"+", "-", "+", " ", "+", "-", "+", " ", "+", "-", "+">>,
      <<" ", "2", "|", " ", " ", " ", " ", "2", "|">>,
      <<"+", " ", "+", "-", "+", " ", "+", "-", "+", " ", "+">>,
      <<" ", "0", " ", "2", "|", " ", "|">>,
      <<"+", " ", "+", " ", "+", "-", "+", " ", "+", " ", "+">>>>

\* The drawings in the order of the tests: the two single tests, then the
\* puzzles of test_solve.
TestVectors ==
    <<Drawing1, Drawing2, Drawing3, Drawing4, Drawing5, Drawing6, Drawing7, Drawing8>>

\* Cell::from(&str): the empty string and the blank are Any, the four
\* digits are the four clues, and any other value panics.
Cell_from(value) ==
    CASE value = "" \/ value = " " -> "Any"
      [] value = "0" -> "Zero"
      [] value = "1" -> "One"
      [] value = "2" -> "Two"
      [] value = "3" -> "Three"
      [] OTHER -> "panic"

\* Edge::from_ascii.
Edge_from_ascii(character) ==
    IF character = "-" \/ character = "|" THEN "Line" ELSE "Unknown"

\* Cells::from_ascii: the lines after the first, every second one; of each
\* the characters after the first, every second one, filled up with Any to
\* the width the first line gives.
Cells_from_ascii(lines) ==
    LET numbers_per_row == Len(lines[1]) \div 2
    IN  [rows |-> [r \in 0..((Len(lines) \div 2) - 1) |->
                     LET line == lines[2 * r + 2]
                     IN  [c \in 0..(numbers_per_row - 1) |->
                             IF 2 * c + 2 <= Len(line)
                             THEN Cell_from(line[2 * c + 2])
                             ELSE "Any"]]]

\* Edges::from_ascii: the horizontal rows are the lines from the first,
\* every second one, as long as the line makes them; the vertical rows are
\* the lines from the second, filled up with Unknown to the width.
Edges_from_ascii(lines) ==
    LET width == Len(lines[1]) \div 2 + 1
    IN  [horizontal |->
            [r \in 0..(((Len(lines) + 1) \div 2) - 1) |->
                LET line == lines[2 * r + 1]
                IN  [c \in 0..((Len(line) \div 2) - 1) |->
                        Edge_from_ascii(line[2 * c + 2])]],
         vertical |->
            [r \in 0..((Len(lines) \div 2) - 1) |->
                LET line == lines[2 * r + 2]
                IN  [c \in 0..(width - 1) |->
                        IF 2 * c + 1 <= Len(line)
                        THEN Edge_from_ascii(line[2 * c + 1])
                        ELSE "Unknown"]]]

\* assert_same_lines: the two grids have as many edges, and edge by edge, in
\* the order of index_edges, both are Line or neither is.
assert_same_lines(a, b) ==
    LET a_indices == index_edges(a)
        b_indices == index_edges(b)
    IN  /\ Len(a_indices) = Len(b_indices)
        /\ \A i \in DOMAIN a_indices :
              /\ EdgeInBounds(a, a_indices[i])
              /\ EdgeInBounds(b, b_indices[i])
              /\ is_line(EdgeAt(a, a_indices[i])) = is_line(EdgeAt(b, b_indices[i]))

\* assert_solution up to the call of solve: the puzzle of a drawing.
InitVectors ==
    /\ \E i \in DOMAIN TestVectors : cells = Cells_from_ascii(TestVectors[i])
    /\ Start

SpecVectors == InitVectors /\ [][Next]_vars

\* ------------------------------------------------------- create_empty

\* The sizes given to create_empty, zero width and zero height among them.
SizesWithZero == [width : 0..MaxSide, height : 0..MaxSide]

\* No puzzle: create_empty is called with a Size alone.
NoCells == [rows |-> <<>>]

\* No edge grid: what the caller holds before create_empty returns, and
\* still holds when it panics.
NoEdges == [horizontal |-> <<>>, vertical |-> <<>>]

InitCreate ==
    /\ size \in SizesWithZero
    /\ object = NoObject
    /\ grbl = NoGRBL
    /\ cells = NoCells
    /\ edges = NoEdges
    /\ pc = "create_empty"
    /\ last = NoCall
    /\ reports = <<>>
    /\ route = <<>>

\* One call of Edges::create_empty: a failed assert panics and no grid is
\* returned; the function has no error result (it returns Edges).
CreateEmpty ==
    /\ pc = "create_empty"
    /\ IF create_empty_panics(size)
       THEN /\ pc' = "create_abort"
            /\ edges' = edges
       ELSE /\ pc' = "created"
            /\ edges' = create_empty(size)
    /\ UNCHANGED <<cells, last, reports, route, size, object, grbl>>

NextCreate == CreateEmpty

SpecCreate == InitCreate /\ [][NextCreate]_vars

\* ----------------------------------------------------------- extraction

\* The characters of the clue values given from Python.
ClueCharacters == {" ", "0", "1", "2", "3", "4", "x"}

\* The Python objects given as one clue: the strings of at most two of the
\* characters, and a number, which is not a string.
PyValues ==
    {[type |-> "str", value |-> s] :
        s \in {""} \cup ClueCharacters
               \cup {a \o b : a \in ClueCharacters, b \in ClueCharacters}}
    \cup {[type |-> "int", value |-> "3"]}

\* The Python objects given as a puzzle: a list of one row, of one clue of
\* any kind or of two clues of a few kinds.
PyPuzzles ==
    {<<<<v>>>> : v \in PyValues}
    \cup {<<<<v, w>>>> :
             v \in {x \in PyValues : x.value \in {"", "3", "4"}},
             w \in {x \in PyValues : x.value \in {"", "3", "4"}}}

ExtractOk(value) == [kind |-> "Ok", value |-> value]

\* Cell::extract: String::extract fails with a Python TypeError on an
\* object that is not a string; Cell::from then maps the string or panics.
Cell_extract(o) ==
    IF o.type # "str" THEN [kind |-> "Err", value |-> "TypeError"]
    ELSE IF Cell_from(o.value) = "panic" THEN [kind |-> "panic", value |-> <<>>]
    ELSE ExtractOk(Cell_from(o.value))

\* Vec::extract of one row: the clues are extracted from the left, and the
\* first one that fails ends the extraction.
RECURSIVE Row_extract(_, _, _)
Row_extract(list, i, row) ==
    IF i > Len(list) THEN ExtractOk(row)
    ELSE LET c == Cell_extract(list[i])
         IN  IF c.kind # "Ok" THEN c
             ELSE Row_extract(list, i + 1,
                              [k \in 0..(i - 1) |-> IF k = i - 1 THEN c.value ELSE row[k]])

\* Cells::extract: Vec::extract of the rows.
RECURSIVE Rows_extract(_, _, _)
Rows_extract(list, i, rows) ==
    IF i > Len(list) THEN ExtractOk([rows |-> rows])
    ELSE LET r == Row_extract(list[i], 1, <<>>)
         IN  IF r.kind # "Ok" THEN r
             ELSE Rows_extract(list, i + 1,
                               [k \in 0..(i - 1) |-> IF k = i - 1 THEN r.value ELSE rows[k]])

Cells_extract(o) == Rows_extract(o, 1, <<>>)

InitExtract ==
    /\ object \in PyPuzzles
    /\ grbl = NoGRBL
    /\ cells = NoCells
    /\ edges = NoEdges
    /\ size = [width |-> 0, height |-> 0]
    /\ pc = "extract"
    /\ last = NoCall
    /\ reports = <<>>
    /\ route = <<>>

\* The extraction of the argument of lib.rs solve: it returns the Cells,
\* returns the error of String::extract, or panics in Cell::from.
Extract ==
    /\ pc = "extract"
    /\ LET r == Cells_extract(object)
       IN  /\ pc' = CASE r.kind = "Ok" -> "extracted"
                      [] r.kind = "Err" -> r.value
                      [] r.kind = "panic" -> "extract_abort"
           /\ cells' = IF r.kind = "Ok" THEN r.value ELSE cells
    /\ UNCHANGED <<edges, last, reports, route, size, object, grbl>>

NextExtract == Extract

SpecExtract == InitExtract /\ [][NextExtract]_vars

\* -------------------------------------------------------- the GRBL port

\* BUFFER_SIZE of the model (8 * 1024 in the source): twice the longest
\* line the plotter sends, so that the copy of get_line_from_buffer stays
\* inside the buffer for every line of DeviceLines as it was sent.
BufferSize == 48

\* The number of lines the plotter sends in a run of SpecGRBL.
MaxDeviceLines == 5

\* The number of commands called on the GRBL object after its construction.
MaxCommands == 2

\* A byte is a string of one character; NUL is the byte 0 the buffer is
\* filled with, and InvalidByte a byte no UTF-8 text contains.
NUL == "NUL"

InvalidByte == "0xFF"

OkSuffix == <<"o", "k", "\r", "\n">>

UnlockLine ==
    <<"[", "'", "$", "H", "'", "|", "'", "$", "X", "'", " ", "t", "o", " ",
      "u", "n", "l", "o", "c", "k", "]", "\r", "\n">>

\* The lines the plotter sends: the line that ends the greeting, the
\* acknowledgement, an empty line, and a line with a byte that is not UTF-8.
DeviceLines ==
    {UnlockLine, OkSuffix, <<"\r", "\n">>, <<InvalidByte, "\n">>}

\* The four messages of exchange_init_sequence, in order.
InitSequence ==
    << <<"$", "H", "\n">>,
       <<"G", "2", "1", "\n">>,
       <<"G", "9", "0", "\n">>,
       <<"F", "2", "0", "0", "0", "\n">> >>

\* The coordinates given to move_to and seek_to, in tenths.
Coordinates == {0, 15}

Digit(n) == <<"0", "1", "2", "3", "4", "5", "6", "7", "8", "9">>[n + 1]

\* Display of an f64 with at most one decimal, given in tenths below 100.
Display_f64(tenths) ==
    LET whole == IF tenths >= 100 THEN <<Digit(tenths \div 100)>> ELSE <<>>
        units == <<Digit((tenths \div 10) % 10)>>
    IN  IF tenths % 10 = 0 THEN whole \o units
        ELSE whole \o units \o <<".", Digit(tenths % 10)>>

\* format!("{} X{} Y{}\n", command, x, y)
move_to_using(command, x, y) ==
    command \o <<" ", "X">> \o Display_f64(x) \o <<" ", "Y">> \o Display_f64(y)
        \o <<"\n">>

\* The messages of the four commands of the Python class.
CommandMessages ==
    {move_to_using(<<"G", "1">>, x, y) : x \in Coordinates, y \in Coordinates}
    \cup {move_to_using(<<"G", "0">>, x, y) : x \in Coordinates, y \in Coordinates}
    \cup {<<"M", "5", "\n">>, <<"M", "3", "S", "3", "0", "\n">>}

ends_with(line, suffix) ==
    /\ Len(line) >= Len(suffix)
    /\ SubSeq(line, Len(line) - Len(suffix) + 1, Len(line)) = suffix

\* The test of the loop of exchange: line.ends_with("ok\r\n").
exchange_acknowledged(line) == ends_with(line, OkSuffix)

\* get_line_from_buffer that moves every byte after the line to the front
\* of the buffer and takes the whole line off pos.
get_line_from_buffer_shifting(buffer, pos, start) ==
    LET found == {i \in start..(pos - 1) : buffer[i] = "\n"}
    IN  IF found = {} THEN [kind |-> "None", buffer |-> buffer, pos |-> pos]
        ELSE LET line_length == Min(found)
                 left == [i \in 1..(line_length + 1) |-> buffer[i - 1]]
             IN  IF \E i \in DOMAIN left : left[i] = InvalidByte
                 THEN [kind |-> "FromUtf8Error", buffer |-> buffer, pos |-> pos]
                 ELSE [kind |-> "Ok", line |-> left,
                       buffer |-> [i \in DOMAIN buffer |->
                                      IF i + line_length + 1 < BufferSize
                                      THEN buffer[i + line_length + 1] ELSE NUL],
                       pos |-> pos - (line_length + 1)]

\* The line found from start on, if any, and the buffer and pos the call
\* leaves. left is buffer[0..=line_length]; the bytes copied over it are
\* right[..=line_length], the line_length + 1 bytes that follow it, a slice
\* that does not exist (the call panics) when fewer bytes follow.
get_line_from_buffer(buffer, pos, start) ==
    LET found == {i \in start..(pos - 1) : buffer[i] = "\n"}
    IN  IF found = {} THEN [kind |-> "None", buffer |-> buffer, pos |-> pos]
        ELSE LET line_length == Min(found)
                 left == [i \in 1..(line_length + 1) |-> buffer[i - 1]]
             IN  IF \E i \in DOMAIN left : left[i] = InvalidByte
                 THEN [kind |-> "FromUtf8Error", buffer |-> buffer, pos |-> pos]
                 ELSE IF line_length + 1 > BufferSize - (line_length + 1)
                 THEN [kind |-> "panic", buffer |-> buffer, pos |-> pos]
                 ELSE [kind |-> "Ok", line |-> left,
                       buffer |-> [i \in DOMAIN buffer |->
                                      IF i <= line_length
                                      THEN buffer[i + line_length + 1]
                                      ELSE buffer[i]],
                       pos |-> pos - line_length]

\* The GRBL object after try_connect, with what the model records beside
\* it: wire holds the bytes the plotter has sent and port.read has not yet
\* returned, sent counts the lines of the plotter, log lists the port
\* writes, the lines read returned and the results of exchange, received
\* the bytes port.read returned, next the number of messages of the init
\* sequence exchanged, calls the number of commands called.
Connected ==
    [buffer |-> [i \in 0..(BufferSize - 1) |-> NUL],
     pos |-> 0,
     start |-> 0,
     message |-> <<>>,
     wire |-> <<>>,
     sent |-> 0,
     received |-> <<>>,
     log |-> <<>>,
     next |-> 0,
     calls |-> 0]

InitGRBL ==
    /\ grbl = Connected
    /\ pc = "greeting"
    /\ object = NoObject
    /\ cells = NoCells
    /\ edges = NoEdges
    /\ size = [width |-> 0, height |-> 0]
    /\ last = NoCall
    /\ reports = <<>>
    /\ route = <<>>

GRBLUnchanged == UNCHANGED <<cells, edges, last, reports, route, size, object>>

\* In a call of read: the loop that ignores the greeting, or the loop of
\* exchange.
Reading == pc \in {"greeting", "exchange"}

\* The plotter sends a line.
DeviceSend ==
    /\ grbl # NoGRBL
    /\ pc \in {"greeting", "exchange", "write", "ready"}
    /\ grbl.sent < MaxDeviceLines
    /\ \E line \in DeviceLines :
          grbl' = [grbl EXCEPT !.wire = @ \o line, !.sent = @ + 1]
    /\ UNCHANGED pc
    /\ GRBLUnchanged

\* What follows an exchange that returned Ok: the next message of the init
\* sequence, or the return of the constructor or of the command.
AfterExchange(g) ==
    IF g.next < Len(InitSequence)
    THEN [pc |-> "write",
          grbl |-> [g EXCEPT !.next = @ + 1, !.message = InitSequence[g.next + 1]]]
    ELSE [pc |-> "ready", grbl |-> g]

\* The call of read returned a line that does not end the loop of its
\* caller and left the buffer and pos as they were: every later call
\* returns the same line, and the loop never ends.
Spins(r) ==
    /\ r.buffer = grbl.buffer
    /\ r.pos = grbl.pos
    /\ IF pc = "greeting" THEN r.line # UnlockLine
       ELSE ~exchange_acknowledged(r.line)

\* read finds a line in the buffer and returns it (or the error of
\* from_utf8, or panics in copy_from_slice); the caller then tests the line.
ReadReturn ==
    /\ Reading
    /\ LET r == get_line_from_buffer(grbl.buffer, grbl.pos, grbl.start)
           g == [grbl EXCEPT !.buffer = r.buffer, !.pos = r.pos, !.start = 0]
       IN  /\ r.kind # "None"
           /\ CASE r.kind = "Ok" /\ Spins(r) ->
                     /\ pc' = "grbl_hang"
                     /\ grbl' = grbl
                [] r.kind = "panic" ->
                     /\ pc' = "grbl_abort"
                     /\ grbl' = grbl
                [] r.kind = "FromUtf8Error" ->
                     /\ pc' = "io_error"
                     /\ grbl' = [grbl EXCEPT !.log = Append(@, <<"Err">>)]
                [] r.kind = "Ok" /\ ~Spins(r) /\ pc = "greeting" ->
                     LET h == [g EXCEPT !.log = Append(@, <<"read", r.line>>)]
                     IN  IF r.line = UnlockLine
                         THEN /\ pc' = "write"
                              /\ grbl' = [h EXCEPT !.next = 1,
                                                   !.message = InitSequence[1]]
                         ELSE /\ pc' = "greeting"
                              /\ grbl' = h
                [] r.kind = "Ok" /\ ~Spins(r) /\ pc = "exchange" ->
                     LET h == [g EXCEPT !.log = Append(@, <<"read", r.line>>)]
                     IN  IF exchange_acknowledged(r.line)
                         THEN LET a == AfterExchange(
                                          [h EXCEPT !.log = Append(@, <<"Ok">>)])
                              IN  /\ pc' = a.pc
                                  /\ grbl' = a.grbl
                         ELSE /\ pc' = "exchange"
                              /\ grbl' = h
    /\ GRBLUnchanged

\* The numbers of bytes one port.read returns: one byte, or all the bytes
\* that are waiting.
ChunkSizes(wire) == {1, Len(wire)} \cap (1..Len(wire))

\* read finds no line in the buffer: start = self.pos and port.read fills
\* the rest of the buffer with some of the bytes on the wire. port.read
\* fails (a timeout) when the plotter sends nothing, and returns 0 for ever
\* when the buffer is full and bytes are waiting.
PortRead ==
    /\ Reading
    /\ get_line_from_buffer(grbl.buffer, grbl.pos, grbl.start).kind = "None"
    /\ \/ /\ grbl.pos = BufferSize
          /\ grbl.wire # <<>>
          /\ pc' = "grbl_hang"
          /\ grbl' = grbl
       \/ /\ grbl.wire = <<>>
          /\ pc' = "io_error"
          /\ grbl' = [grbl EXCEPT !.log = Append(@, <<"Err">>)]
       \/ /\ grbl.pos < BufferSize
          /\ \E n \in ChunkSizes(grbl.wire) :
                /\ n <= BufferSize - grbl.pos
                /\ grbl' = [grbl EXCEPT
                      !.start = grbl.pos,
                      !.pos = @ + n,
                      !.buffer = [i \in DOMAIN @ |->
                                     IF i >= grbl.pos /\ i < grbl.pos + n
                                     THEN grbl.wire[i - grbl.pos + 1] ELSE @[i]],
                      !.received = @ \o SubSeq(grbl.wire, 1, n),
                      !.wire = SubSeq(@, n + 1, Len(@))]
          /\ UNCHANGED pc
    /\ GRBLUnchanged

\* write of exchange: the assert on the newline, then port.write_all, which
\* succeeds or fails.
Write ==
    /\ pc = "write"
    /\ IF ~ends_with(grbl.message, <<"\n">>)
       THEN /\ pc' = "grbl_abort"
            /\ grbl' = grbl
       ELSE \/ /\ pc' = "exchange"
               /\ grbl' = [grbl EXCEPT !.log = Append(@, <<"write", grbl.message>>),
                                       !.start = 0]
            \/ /\ pc' = "io_error"
               /\ grbl' = [grbl EXCEPT !.log = Append(@, <<"Err">>)]
    /\ GRBLUnchanged

\* A call of move_to, seek_to, lower_pen or raise_pen on the constructed
\* object.
Command ==
    /\ pc = "ready"
    /\ grbl.calls < MaxCommands
    /\ \E message \in CommandMessages :
          grbl' = [grbl EXCEPT !.message = message, !.calls = @ + 1]
    /\ pc' = "write"
    /\ GRBLUnchanged

NextGRBL == DeviceSend \/ ReadReturn \/ PortRead \/ Write \/ Command

SpecGRBL == InitGRBL /\ [][NextGRBL]_vars

\* ------------------------------------------------- vocabulary of the claims

AllCells(cs) == {index_cells(cs)[i] : i \in DOMAIN index_cells(cs)}

AllEdges(es) == {index_edges(es)[i] : i \in DOMAIN index_edges(es)}

AllIntersections(es) == {index_intersections(es)[i] : i \in DOMAIN index_intersections(es)}

LineEdges(es) == {e \in AllEdges(es) : EdgeAt(es, e) = "Line"}

EndPoints(e) == {get_intersections(e)[1], get_intersections(e)[2]}

CellEdgeSet(index) == {CellIndex_index_edge(index, iter_all[i]) : i \in 1..4}

\* The in-grid edges at an intersection, and how many edges (of the four
\* directions) lie off the grid.
IncidentEdges(es, v) == {e \in AllEdges(es) : v \in EndPoints(e)}

OffGridCount(es, v) == 4 - Cardinality(IncidentEdges(es, v))

Degree(L, v) == Cardinality({e \in L : v \in EndPoints(e)})

\* The edges of L joined to the intersections in seen by edges of L.
RECURSIVE Reach(_, _)
Reach(L, seen) ==
    LET more == UNION {EndPoints(e) : e \in {f \in L : EndPoints(f) \cap seen # {}}}
    IN  IF more \subseteq seen THEN seen ELSE Reach(L, seen \cup more)

\* L is one simple closed loop.
IsSingleLoop(L) ==
    /\ L # {}
    /\ \A e \in L : \A v \in EndPoints(e) : Degree(L, v) = 2
    /\ LET start == CHOOSE e \in L : TRUE
       IN  \A e \in L : EndPoints(e) \subseteq Reach(L, EndPoints(start))

\* L without the edges that lie on no cycle of L.
RECURSIVE Prune(_)
Prune(L) ==
    LET loose == {e \in L : \E v \in EndPoints(e) : Degree(L, v) = 1}
    IN  IF loose = {} THEN L ELSE Prune(L \ loose)

HasCycle(L) == Prune(L) # {}

ExpectedLines(cell) == Unwrap(get_expected_line_count(cell))

CluesSatisfiedBy(cs, L) ==
    \A c \in AllCells(cs) :
        CellAt(cs, c) = "Any"
        \/ Cardinality(CellEdgeSet(c) \cap L) = ExpectedLines(CellAt(cs, c))

\* The boundary of a set S of cells: the edges with exactly one side in S.
Boundary(es, S) ==
    {e \in AllEdges(es) : Cardinality({c \in S : e \in CellEdgeSet(c)}) = 1}

\* Every simple closed loop is the boundary of the cells it encloses.
Solutions(cs, es) ==
    {L \in {Boundary(es, S) : S \in (SUBSET AllCells(cs)) \ {{}}} :
        CluesSatisfiedBy(cs, L) /\ IsSingleLoop(L)}

HasValidSolution(cs, es) == Solutions(cs, es) # {}

CountAround(es, idxs, value) == Cardinality({e \in idxs : EdgeAt(es, e) = value})

Returned == pc \in {"done", "routed", "route_abort", "route_hang"}

\* ------------------------------------------- the rules in any scan order

\* set_edges over any order of its indices: each Unknown edge among them
\* can be the first one found. The result is the set of edge grids the call
\* can leave; the empty set is a report of no change.
set_edges_any_order(es, indices, value) ==
    {EdgeSet(es, Unwrap(indices[i]), value) :
        i \in {j \in DOMAIN indices :
                  /\ indices[j] # None
                  /\ EdgeInBounds(es, Unwrap(indices[j]))
                  /\ EdgeAt(es, Unwrap(indices[j])) = "Unknown"}}

\* a || b on sets of results: b counts only when a can change nothing.
OrElseAny(A, B) == IF A # {} THEN A ELSE B

\* fill_cell in any order, with the two values exchanged.
fill_cell_any_order_swapped(cs, es, index) ==
    LET expected_line_count == get_expected_line_count(CellAt(cs, index))
        indices == CellIndex_index_edges(index)
        counts == count_edges(es, indices)
    IN  IF expected_line_count = None THEN {}
        ELSE IF counts.line_count = Unwrap(expected_line_count)
        THEN set_edges_any_order(es, indices, "Line")
        ELSE IF counts.x_count = 4 - Unwrap(expected_line_count)
        THEN set_edges_any_order(es, indices, "X")
        ELSE {}

fill_cell_any_order(cs, es, index) ==
    LET expected_line_count == get_expected_line_count(CellAt(cs, index))
        indices == CellIndex_index_edges(index)
        counts == count_edges(es, indices)
    IN  IF expected_line_count = None THEN {}
        ELSE IF counts.line_count = Unwrap(expected_line_count)
        THEN set_edges_any_order(es, indices, "X")
        ELSE IF counts.x_count = 4 - Unwrap(expected_line_count)
        THEN set_edges_any_order(es, indices, "Line")
        ELSE {}

fill_intersection_any_order(es, index) ==
    LET indices == index_adjacent_edges(es, index)
        counts == count_edges(es, indices)
    IN  IF counts.line_count = 2 THEN set_edges_any_order(es, indices, "X")
        ELSE {}

\* The two scans of fill_certain_values, each in any order: the cell (or,
\* when no cell changes an edge, the intersection) that is found first can
\* be any of those that change an edge.
fill_certain_values_any_order(cs, es) ==
    OrElseAny(UNION {fill_cell_any_order(cs, es, index) : index \in AllCells(cs)},
              UNION {fill_intersection_any_order(es, index) :
                        index \in AllIntersections(es)})

RECURSIVE apply_constraint_any_order(_, _, _, _, _)
RECURSIVE apply_constraint_to_cell_any_order(_, _, _, _, _)

apply_constraint_any_order(cs, es, constraint, from, to) ==
    LET near == index_adjacent_corner_edges(es, from, to)
        counts == count_edges(es, near)
        value == constraint_value(constraint, counts)
        next_cell == index_diagonally_from_intersection(es, from, to)
    IN  OrElseAny(IF value = None THEN {}
                  ELSE set_edges_any_order(es, near, Unwrap(value)),
                  IF next_cell = None THEN {}
                  ELSE apply_constraint_to_cell_any_order(cs, es, constraint,
                                                          Unwrap(next_cell), to))

apply_constraint_to_cell_any_order(cs, es, constraint, index, to) ==
    LET near == CellIndex_index_corner_edges(index, get_opposite(to))
        far == CellIndex_index_corner_edges(index, to)
        next_intersection == CellIndex_index_intersection(index, to)
        counts == count_edges(es, far)
        cell == CellAt(cs, index)
        adjacent_directions == get_adjacent(to)
    IN  IF ~CellInBounds(cs, index) THEN {}
        ELSE CASE cell = "One" ->
                    (CASE constraint = "Line" -> set_edges_any_order(es, far, "X")
                       [] constraint = "NoLine" -> set_edges_any_order(es, near, "X")
                       [] OTHER -> {})
               [] cell = "Two" ->
                    (CASE constraint = "Line" ->
                            IF counts.line_count > 0
                            THEN set_edges_any_order(es, far, "X")
                            ELSE IF counts.x_count > 0
                            THEN set_edges_any_order(es, far, "Line")
                            ELSE apply_constraint_any_order(cs, es, constraint,
                                                            next_intersection, to)
                       [] constraint = "NoCorner" ->
                            apply_constraint_any_order(cs, es, constraint,
                                                       next_intersection, to)
                       [] constraint = "NoLine" ->
                            IF counts.x_count > 0
                            THEN set_edges_any_order(es, near, "Line")
                            ELSE OrElseAny(
                                    UNION {apply_constraint_any_order(cs, es, "Line",
                                               CellIndex_index_intersection(
                                                   index, adjacent_directions[i]),
                                               adjacent_directions[i]) :
                                           i \in DOMAIN adjacent_directions},
                                    apply_constraint_any_order(cs, es, "NoLine",
                                                               next_intersection, to)))
               [] cell = "Three" ->
                    (CASE constraint = "Line" -> set_edges_any_order(es, far, "Line")
                       [] constraint = "NoCorner" ->
                            set_edges_any_order(es, far, "Line")
                       [] constraint = "NoLine" ->
                            OrElseAny(set_edges_any_order(es, near, "Line"),
                                      apply_constraint_any_order(cs, es, "Line",
                                                                 next_intersection, to)))
               [] OTHER -> {}

\* check_cell_constraints with CornerDirection::ALL in any order.
check_cell_constraints_any_order(cs, es, index) ==
    UNION {LET direction == CornerDirection_ALL[i]
               counts == count_edges(es, CellIndex_index_corner_edges(index, direction))
               constraint == cell_constraint(CellAt(cs, index), counts)
               to == get_opposite(direction)
           IN  IF constraint = None THEN {}
               ELSE apply_constraint_any_order(cs, es, Unwrap(constraint),
                        CellIndex_index_intersection(index, to), to) :
           i \in DOMAIN CornerDirection_ALL}

check_intersection_constraints_any_order(cs, es, index) ==
    UNION {LET direction == CornerDirection_ALL[i]
               counts == count_edges(es, index_adjacent_corner_edges(es, index, direction))
               constraint == intersection_constraint(counts)
           IN  IF constraint = None THEN {}
               ELSE apply_constraint_any_order(cs, es, Unwrap(constraint), index,
                                               get_opposite(direction)) :
           i \in DOMAIN CornerDirection_ALL}

check_constraints_any_order(cs, es) ==
    OrElseAny(UNION {check_cell_constraints_any_order(cs, es, index) :
                        index \in AllCells(cs)},
              UNION {check_intersection_constraints_any_order(cs, es, index) :
                        index \in AllIntersections(es)})

\* check_loops with index_edges in any order: any Unknown edge whose walk
\* ends at its other end can be the one crossed out. A walk that never ends
\* yields no result.
check_loops_any_order(es) ==
    {EdgeSet(es, index, "X") :
        index \in {e \in AllEdges(es) :
                      /\ is_unknown(EdgeAt(es, e))
                      /\ would_close_loop(es, e).result}}

\* One call of a routine by the loop of solve, the routine scanning in any
\* order: results is the set of edge grids the call can leave.
CallAnyOrder(routine, results, next_pc) ==
    /\ \/ /\ results = {}
          /\ edges' = edges
          /\ pc' = next_pc
          /\ reports' = Append(reports, FALSE)
       \/ /\ edges' \in results
          /\ pc' = "fill_certain_values"
          /\ reports' = <<>>
    /\ last' = [routine |-> routine, changed |-> results # {}]
    /\ UNCHANGED <<cells, route, size, object, grbl>>

FillCertainValuesAnyOrder ==
    /\ pc = "fill_certain_values"
    /\ CallAnyOrder("fill_certain_values",
                    fill_certain_values_any_order(cells, edges), "check_constraints")

CheckConstraintsAnyOrder ==
    /\ pc = "check_constraints"
    /\ CallAnyOrder("check_constraints",
                    check_constraints_any_order(cells, edges), "check_loops")

CheckLoopsAnyOrder ==
    /\ pc = "check_loops"
    /\ CallAnyOrder("check_loops", check_loops_any_order(edges), "done")

NextAnyOrder ==
    FillCertainValuesAnyOrder \/ CheckConstraintsAnyOrder \/ CheckLoopsAnyOrder

\* The largest grids without a valid solution among the input grids of
\* SpecAnyOrder, in cells: the runs of such a grid branch widely.
MaxUnsolvableCells == 2

\* The input grids of SpecAnyOrder: every grid of Spec that has a valid
\* solution, and every grid of at most MaxUnsolvableCells cells.
InitAnyOrder ==
    /\ \E dim \in Sizes :
          /\ cells \in Grids(dim, CellValues)
          /\ \/ dim.width * dim.height <= MaxUnsolvableCells
             \/ HasValidSolution(cells, create_empty(dim))
    /\ Start

SpecAnyOrder == InitAnyOrder /\ [][NextAnyOrder]_vars

\* The three calls of one turn of the loop of solve, in row-major order.
solve_pass(cs, es) ==
    OrElse(fill_certain_values(cs, es),
           LAMBDA e1 : OrElse(check_constraints(cs, e1),
                              LAMBDA e2 : check_loops(e2)))

\* The loop of solve from the edge grid es on: the grid it returns.
\* while r.changed: the loop goes on from the grid the pass left.
WhileChanged(r, Again(_)) == IF r.changed THEN Again(r.edges) ELSE r.edges

RECURSIVE solve_loop(_, _)
solve_loop(cs, es) ==
    WhileChanged(solve_pass(cs, es), LAMBDA e : solve_loop(cs, e))

solve(cs) == solve_loop(cs, create_empty(get_size(cs)))

\* ----------------------------------------------------------------- claims

\* C1: an edge that is Line or X keeps its value in every later state; the
\* only transitions of an edge are Unknown -> Line and Unknown -> X, and the
\* shape of the edge grid never changes.
C1_Monotone ==
    [][/\ AllEdges(edges') = AllEdges(edges)
       /\ \A e \in AllEdges(edges) :
            \/ EdgeAt(edges', e) = EdgeAt(edges, e)
            \/ (EdgeAt(edges, e) = "Unknown" /\ EdgeAt(edges', e) \in {"Line", "X"})]_vars

\* A run in which all three families have set edges: the loop check has just
\* set an X while a Line and an X set earlier are still in place.
C1_Witness ==
    /\ last = [routine |-> "check_loops", changed |-> TRUE]
    /\ Cardinality(LineEdges(edges)) >= 3
    /\ Cardinality({e \in AllEdges(edges) : EdgeAt(edges, e) = "X"}) >= 2

\* C2: solve halts on every grid: no call of the loop check walks forever,
\* and solve has returned exactly when a pass reported no change three times.
C2_SolveHalts ==
    /\ pc # "hang"
    /\ Returned <=> reports = <<FALSE, FALSE, FALSE>>

\* C3: on a puzzle with a valid solution every clue cell with value k has at
\* most k Line edges and at most 4 - k X edges around it, and exactly k Line
\* edges once no edge of the grid is Unknown.
C3_ClueSoundness ==
    \/ \A c \in AllCells(cells) :
          \/ CellAt(cells, c) = "Any"
          \/ LET k == ExpectedLines(CellAt(cells, c))
                 lines == CountAround(edges, CellEdgeSet(c), "Line")
                 xs == CountAround(edges, CellEdgeSet(c), "X")
             IN  /\ lines <= k
                 /\ xs <= 4 - k
                 /\ (\A e \in AllEdges(edges) : EdgeAt(edges, e) # "Unknown") => lines = k
    \/ ~HasValidSolution(cells, edges)

\* A solved puzzle: solve has returned a grid without Unknown edges on a
\* puzzle with a valid solution and a clue cell that has Line edges.
C3_Witness ==
    /\ pc = "done"
    /\ \A e \in AllEdges(edges) : EdgeAt(edges, e) # "Unknown"
    /\ \E c \in AllCells(cells) :
          /\ CellAt(cells, c) \in {"Two", "Three"}
          /\ CountAround(edges, CellEdgeSet(c), "Line") = ExpectedLines(CellAt(cells, c))
    /\ HasValidSolution(cells, edges)

\* C4: on a puzzle with a valid solution no intersection has three or more
\* Line edges, and none has exactly one Line edge with all its other edges
\* known (an edge off the grid counts as X).
C4_IntersectionSoundness ==
    \/ \A v \in AllIntersections(edges) :
          LET lines == CountAround(edges, IncidentEdges(edges, v), "Line")
              xs == CountAround(edges, IncidentEdges(edges, v), "X")
                    + OffGridCount(edges, v)
          IN  /\ lines < 3
              /\ ~(lines = 1 /\ xs = 3)
              /\ (lines \in {0, 2} \/ lines + xs < 4)
    \/ ~HasValidSolution(cells, edges)

\* An interior or border intersection of a solvable puzzle whose two Line
\* edges are known and whose other in-grid edges have been crossed out.
C4_Witness ==
    /\ pc = "done"
    /\ \E v \in AllIntersections(edges) :
          /\ CountAround(edges, IncidentEdges(edges, v), "Line") = 2
          /\ CountAround(edges, IncidentEdges(edges, v), "X") >= 1
    /\ HasValidSolution(cells, edges)

\* C5: on a puzzle with a valid solution, whenever the Line edges contain a
\* closed cycle, the Line edges are exactly one simple loop and that loop
\* satisfies every clue: no proper sub-loop is ever drawn.
C5_NoSubLoop ==
    \/ ~HasCycle(LineEdges(edges))
    \/ (IsSingleLoop(LineEdges(edges)) /\ CluesSatisfiedBy(cells, LineEdges(edges)))
    \/ ~HasValidSolution(cells, edges)

\* A closed loop has been drawn on a puzzle with a valid solution, around
\* more than one cell.
C5_Witness ==
    /\ HasCycle(LineEdges(edges))
    /\ Cardinality(LineEdges(edges)) >= 6
    /\ HasValidSolution(cells, edges)
\* C6: no step of solve reads or writes an edge, cell or intersection
\* outside the grid (solve never aborts on an index), and the indexing
\* primitives report a neighbour that would lie off the grid as absent.
C6_InBounds ==
    /\ pc # "abort"
    /\ \A v \in AllIntersections(edges) :
          /\ \A d \in DOMAIN iter_all :
                LET e == index_adjacent_edge(edges, v, iter_all[d])
                IN  e = None \/ EdgeInBounds(edges, Unwrap(e))
          /\ \A d \in DOMAIN CornerDirection_ALL :
                LET c == index_diagonally_from_intersection(edges, v, CornerDirection_ALL[d])
                IN  c = None \/ CellInBounds(cells, Unwrap(c))

\* solve has returned on a grid whose clue cell in the last row and column
\* sends constraints towards the border, and Line edges lie on the border.
C6_Witness ==
    /\ pc = "done"
    /\ \E c \in AllCells(cells) :
          /\ CellAt(cells, c) \in {"Two", "Three"}
          /\ c.row = VecLen(cells.rows) - 1
          /\ c.column = VecLen(cells.rows[0]) - 1
          /\ EdgeAt(edges, CellIndex_index_edge(c, "East")) = "Line"
          /\ EdgeAt(edges, CellIndex_index_edge(c, "South")) = "Line"
    /\ VecLen(cells.rows) * VecLen(cells.rows[0]) = MaxCells

\* C7: within a pass the routines run in the order local fill, constraint
\* propagation, loop check; a routine that reports a change sends solve back
\* to local fill; so constraint propagation only runs in a state local fill
\* cannot change, and the loop check only in a state neither can change.
C7_PassOrder ==
    /\ pc = "fill_certain_values" => reports = <<>>
    /\ pc = "check_constraints" =>
          /\ last = [routine |-> "fill_certain_values", changed |-> FALSE]
          /\ reports = <<FALSE>>
          /\ ~fill_certain_values(cells, edges).changed
    /\ pc = "check_loops" =>
          /\ last = [routine |-> "check_constraints", changed |-> FALSE]
          /\ reports = <<FALSE, FALSE>>
          /\ ~fill_certain_values(cells, edges).changed
          /\ ~check_constraints(cells, edges).changed
    /\ last.changed => pc = "fill_certain_values"

\* The loop check is about to set an edge, after local fill and constraint
\* propagation have set edges earlier in the run.
C7_Witness ==
    /\ pc = "check_loops"
    /\ check_loops(edges).changed
    /\ LineEdges(edges) # {}

NumChanged(before, after) ==
    Cardinality({e \in AllEdges(before) : EdgeAt(before, e) # EdgeAt(after, e)})

LinePath(es, u, v) == v \in Reach(LineEdges(es), {u})

\* The path test on e answers as the Line edges say: it ends, and it is true
\* exactly when a path of Line edges joins the two ends of e.
PathTestExact(es, e) ==
    LET w == would_close_loop(es, e)
        ends == get_intersections(e)
    IN  /\ ~w.diverges
        /\ ~w.panic
        /\ w.result <=> LinePath(es, ends[1], ends[2])

\* The unit squares with three Line sides, an Unknown fourth side e and no
\* other Line edge at their four intersections.
OpenSquares(cs, es) ==
    {e \in AllEdges(es) :
        \E c \in AllCells(cs) :
            /\ e \in CellEdgeSet(c)
            /\ EdgeAt(es, e) = "Unknown"
            /\ \A f \in CellEdgeSet(c) \ {e} : EdgeAt(es, f) = "Line"
            /\ \A f \in LineEdges(es) \ CellEdgeSet(c) :
                  \A g \in CellEdgeSet(c) : EndPoints(f) \cap EndPoints(g) = {}}

AtMostTwoLines(es) ==
    \A v \in AllIntersections(es) : Degree(LineEdges(es), v) <= 2

Adjacent(a, b) ==
    \/ (a[1] = b[1] /\ (a[2] - b[2] = 1 \/ b[2] - a[2] = 1))
    \/ (a[2] = b[2] /\ (a[1] - b[1] = 1 \/ b[1] - a[1] = 1))

\* C10: a route that the route operation returns starts and ends with the
\* same pair, and consecutive pairs differ by one step in one coordinate.
C10_RouteClosed ==
    (pc = "routed" /\ route # <<>>) =>
        /\ route[1] = route[Len(route)]
        /\ \A i \in 1..(Len(route) - 1) : Adjacent(route[i], route[i + 1])

\* The intersection named by a (column, row) pair of the route.
RouteIndex(pair) == [row |-> pair[2], column |-> pair[1]]

\* The intersections with at least one incident Line edge.
OnLine(es) == {v \in AllIntersections(es) : Degree(LineEdges(es), v) >= 1}

RowMajorBefore(v, w) == v.row < w.row \/ (v.row = w.row /\ v.column <= w.column)

\* C11: a route that get_route returns starts at the first intersection in
\* row-major order with an incident Line edge; each next entry is the
\* intersection the line walk steps to from the entry before (joined to it
\* by a Line edge, and never the one the walk came from); the walk stops
\* where it cannot continue or would step back onto the start; the start is
\* appended once, so it stands first and last and nowhere else.
C11_RouteOfWalk ==
    pc = "routed" =>
        LET n == Len(route)
            start == CHOOSE v \in OnLine(edges) :
                         \A w \in OnLine(edges) : RowMajorBefore(v, w)
            at == [i \in 1..n |-> RouteIndex(route[i])]
            before == [i \in 1..n |-> IF i = 1 THEN [row |-> 0, column |-> 0]
                                                ELSE at[i - 1]]
        IN  /\ OnLine(edges) # {}
            /\ n >= 3
            /\ at[1] = start
            /\ at[n] = start
            /\ \A i \in 2..(n - 1) : at[i] # start
            /\ \A i \in 1..(n - 2) :
                  /\ follow_line(edges, before[i], at[i]).next = Some(at[i + 1])
                  /\ \E e \in LineEdges(edges) : EndPoints(e) = {at[i], at[i + 1]}
                  /\ at[i + 1] # before[i]
            /\ follow_line(edges, before[n - 1], at[n - 1]).next \in {None, Some(start)}

\* A route of a closed loop that does not start at intersection (0,0).
C11_Witness ==
    /\ pc = "routed"
    /\ Len(route) >= 5
    /\ route[1] # <<0, 0>>
    /\ follow_line(edges, RouteIndex(route[Len(route) - 2]),
                   RouteIndex(route[Len(route) - 1])).next = Some(RouteIndex(route[1]))

\* C12: when the grid that solve returned has no Line edge, the route
\* operation returns normally and the route is empty.
C12_EmptyRoute ==
    (pc \in {"routed", "route_abort", "route_hang"} /\ LineEdges(edges) = {}) =>
        (pc = "routed" /\ route = <<>>)

\* The grid of one Zero cell.
SingleZero == [rows |-> [r \in 0..0 |-> [c \in 0..0 |-> "Zero"]]]

\* C13: when solve has returned on a puzzle that has a valid solution, or
\* on a puzzle whose clues are met without any line (the grid of one Zero
\* cell among them), the four edges of every Zero cell are X; the grid of
\* one Zero cell comes back with four X edges and no Line edge.
C13_ZeroCrossed ==
    Returned =>
        /\ (HasValidSolution(cells, edges) \/ CluesSatisfiedBy(cells, {})) =>
              \A c \in AllCells(cells) :
                  CellAt(cells, c) = "Zero" =>
                      \A e \in CellEdgeSet(c) : EdgeAt(edges, e) = "X"
        /\ cells = SingleZero =>
              /\ \A e \in AllEdges(edges) : EdgeAt(edges, e) = "X"
              /\ LineEdges(edges) = {}

\* solve has returned on a puzzle with a loop as its solution and a Zero
\* cell next to a cell of the loop.
C13_Witness ==
    /\ pc = "done"
    /\ HasValidSolution(cells, edges)
    /\ LineEdges(edges) # {}
    /\ \E c \in AllCells(cells) :
          /\ CellAt(cells, c) = "Zero"
          /\ \A e \in CellEdgeSet(c) : EdgeAt(edges, e) = "X"

\* The grid of one row with two Three cells.
TwoThrees == [rows |-> [r \in 0..0 |-> [c \in 0..1 |-> "Three"]]]

\* The shared vertical edge of the two cells of TwoThrees.
SharedEdge == CellIndex_index_edge([row |-> 0, column |-> 0], "East")

\* C14: on the grid [Three, Three] solve returns, with the six edges on the
\* perimeter of the rectangle Line and the shared vertical edge X, and the
\* route has 7 entries: the six intersections of the perimeter in walk
\* order from (0,0), then (0,0) again.
C14_TwoThrees ==
    cells = TwoThrees =>
        /\ pc \notin {"abort", "hang", "route_abort", "route_hang"}
        /\ Returned =>
              /\ EdgeAt(edges, SharedEdge) = "X"
              /\ LineEdges(edges) = AllEdges(edges) \ {SharedEdge}
              /\ Cardinality(LineEdges(edges)) = 6
        /\ pc = "routed" =>
              /\ Len(route) = 7
              /\ route = <<<<0, 0>>, <<1, 0>>, <<2, 0>>, <<2, 1>>,
                           <<1, 1>>, <<0, 1>>, <<0, 0>>>>

\* The route operation has returned on the grid [Three, Three].
C14_Witness ==
    /\ cells = TwoThrees
    /\ pc = "routed"
    /\ Len(route) = 7

\* The pairs of orthogonally adjacent Three cells: b is the right or the
\* lower neighbour of a.
ThreePairs(cs) ==
    {p \in AllCells(cs) \X AllCells(cs) :
        /\ CellAt(cs, p[1]) = "Three"
        /\ CellAt(cs, p[2]) = "Three"
        /\ \/ (p[2].row = p[1].row /\ p[2].column = p[1].column + 1)
           \/ (p[2].column = p[1].column /\ p[2].row = p[1].row + 1)}

\* The edge between the two cells of a pair.
SharedEdges(p) == CellEdgeSet(p[1]) \cap CellEdgeSet(p[2])

\* The edge of each cell of a pair on the side opposite to the shared edge.
FarEdges(p) ==
    {e \in (CellEdgeSet(p[1]) \cup CellEdgeSet(p[2])) \ SharedEdges(p) :
        \A s \in SharedEdges(p) : e.direction = s.direction}

\* The four edges of the rectangle of a pair that run along the pair.
OuterEdges(p) ==
    {e \in CellEdgeSet(p[1]) \cup CellEdgeSet(p[2]) :
        \A s \in SharedEdges(p) : e.direction # s.direction}

AllLine(es, S) == \A e \in S : EdgeAt(es, e) = "Line"

\* C15 as stated: when solve has returned, every pair of orthogonally
\* adjacent Three cells has its four outer edges and its two far-side edges
\* Line.
C15_AdjacentThrees ==
    Returned =>
        \A p \in ThreePairs(cells) :
            AllLine(edges, OuterEdges(p) \cup FarEdges(p))

\* C15, amended: when solve has returned on a puzzle that has a valid
\* solution, a pair of orthogonally adjacent Three cells whose shared edge
\* came back Line has its two far-side edges Line, and a pair whose shared
\* edge came back X has its four outer edges and its two far-side edges
\* Line.
C15_AdjacentThreesBySharedEdge ==
    (Returned /\ HasValidSolution(cells, edges)) =>
        \A p \in ThreePairs(cells) :
            \A s \in SharedEdges(p) :
                /\ EdgeAt(edges, s) = "Line" => AllLine(edges, FarEdges(p))
                /\ EdgeAt(edges, s) = "X" =>
                      AllLine(edges, OuterEdges(p) \cup FarEdges(p))

\* solve has returned on a puzzle with a valid solution and a pair of
\* adjacent Three cells whose shared edge is Line, with the far-side edges
\* Line and an outer edge that is not.
C15_Witness ==
    /\ Returned
    /\ HasValidSolution(cells, edges)
    /\ \E p \in ThreePairs(cells) :
          /\ AllLine(edges, SharedEdges(p) \cup FarEdges(p))
          /\ ~AllLine(edges, OuterEdges(p))

\* The corners of the grid: the corner cell, the two sides of the cell on
\* the boundary of the grid, and the steps to the cell below or above it
\* and to the cell beside it.
GridCorners(cs) ==
    LET dim == get_size(cs)
        bottom == dim.height - 1
        right == dim.width - 1
    IN  {[cell |-> [row |-> 0, column |-> 0],
          v |-> "North", h |-> "West", dr |-> 1, dc |-> 1],
         [cell |-> [row |-> 0, column |-> right],
          v |-> "North", h |-> "East", dr |-> 1, dc |-> -1],
         [cell |-> [row |-> bottom, column |-> 0],
          v |-> "South", h |-> "West", dr |-> -1, dc |-> 1],
         [cell |-> [row |-> bottom, column |-> right],
          v |-> "South", h |-> "East", dr |-> -1, dc |-> -1]}

\* The two boundary edges of a corner cell that meet at the grid corner.
CornerEdges(k) ==
    {CellIndex_index_edge(k.cell, k.v), CellIndex_index_edge(k.cell, k.h)}

\* The two boundary edges next to those: the one of the cell beside the
\* corner cell and the one of the cell below or above it.
NextToCornerEdges(k) ==
    {CellIndex_index_edge([row |-> k.cell.row, column |-> k.cell.column + k.dc], k.v),
     CellIndex_index_edge([row |-> k.cell.row + k.dr, column |-> k.cell.column], k.h)}

\* C16 as stated: when solve has returned on any grid, a One clue in a
\* corner cell of the grid has its two boundary edges at the grid corner X.
C16_OneInCorner ==
    Returned =>
        \A k \in GridCorners(cells) :
            CellAt(cells, k.cell) = "One" =>
                \A e \in CornerEdges(k) : EdgeAt(edges, e) = "X"

\* C16, amended: when solve has returned on a grid that has a valid
\* solution, a One clue in a corner cell of the grid has its two boundary
\* edges at the grid corner X.
C16_OneInCornerOfValid ==
    (Returned /\ HasValidSolution(cells, edges)) =>
        \A k \in GridCorners(cells) :
            CellAt(cells, k.cell) = "One" =>
                \A e \in CornerEdges(k) : EdgeAt(edges, e) = "X"

\* solve has returned on a grid two cells wide and two tall that has a
\* valid solution and a One clue in a corner, whose corner edges are X.
C16_Witness ==
    /\ Returned
    /\ HasValidSolution(cells, edges)
    /\ get_size(cells) = [width |-> 2, height |-> 2]
    /\ \E k \in GridCorners(cells) :
          /\ CellAt(cells, k.cell) = "One"
          /\ \A e \in CornerEdges(k) : EdgeAt(edges, e) = "X"

\* C17: when solve has returned on a grid that has a valid solution, a
\* Three clue in a corner cell of the grid has its two boundary edges at
\* the grid corner Line.
C17_ThreeInCorner ==
    (Returned /\ HasValidSolution(cells, edges)) =>
        \A k \in GridCorners(cells) :
            CellAt(cells, k.cell) = "Three" =>
                \A e \in CornerEdges(k) : EdgeAt(edges, e) = "Line"

\* solve has returned on a grid two cells wide and two tall that has a
\* valid solution and a Three clue in a corner, whose corner edges are
\* Line while another edge of the cell is still Unknown.
C17_Witness ==
    /\ Returned
    /\ HasValidSolution(cells, edges)
    /\ get_size(cells) = [width |-> 2, height |-> 2]
    /\ \E k \in GridCorners(cells) :
          /\ CellAt(cells, k.cell) = "Three"
          /\ \A e \in CornerEdges(k) : EdgeAt(edges, e) = "Line"
          /\ \E e \in CellEdgeSet(k.cell) : EdgeAt(edges, e) = "Unknown"

\* C18: when solve has returned on a grid at least two cells wide and two
\* tall that has a valid solution, a Two clue in a corner cell of the grid
\* has Line on the boundary edge of the cell beside it and on the boundary
\* edge of the cell below or above it.
C18_TwoInCorner ==
    (/\ Returned
     /\ HasValidSolution(cells, edges)
     /\ get_size(cells).width >= 2
     /\ get_size(cells).height >= 2) =>
        \A k \in GridCorners(cells) :
            CellAt(cells, k.cell) = "Two" =>
                \A e \in NextToCornerEdges(k) : EdgeAt(edges, e) = "Line"

\* solve has returned on such a grid with a Two clue in a corner, the two
\* edges next to the corner Line and the corner edges of the cell not yet
\* known.
C18_Witness ==
    /\ Returned
    /\ HasValidSolution(cells, edges)
    /\ get_size(cells).width >= 2
    /\ get_size(cells).height >= 2
    /\ \E k \in GridCorners(cells) :
          /\ CellAt(cells, k.cell) = "Two"
          /\ \A e \in NextToCornerEdges(k) : EdgeAt(edges, e) = "Line"
          /\ \E e \in CornerEdges(k) : EdgeAt(edges, e) = "Unknown"

\* C19: on the puzzle of each drawing of the end-to-end tests solve
\* returns (it neither aborts nor hangs), and the Line edges of the grid it
\* returns are exactly the Line edges of the drawing: the two sets of Line
\* edges are equal and assert_same_lines passes.
C19_TestVectors ==
    /\ pc \notin {"abort", "hang"}
    /\ \A i \in DOMAIN TestVectors :
          /\ \A c \in AllCells(Cells_from_ascii(TestVectors[i])) :
                CellAt(Cells_from_ascii(TestVectors[i]), c) \in CellValues
          /\ (Returned /\ cells = Cells_from_ascii(TestVectors[i])) =>
                /\ LineEdges(edges) = LineEdges(Edges_from_ascii(TestVectors[i]))
                /\ assert_same_lines(edges, Edges_from_ascii(TestVectors[i]))

\* solve has returned on the puzzle of solves_closed_loop_puzzle with the
\* 36 Line edges of its drawing.
C19_Witness ==
    /\ pc = "done"
    /\ cells = Cells_from_ascii(Drawing2)
    /\ LineEdges(edges) = LineEdges(Edges_from_ascii(Drawing2))
    /\ Cardinality(LineEdges(edges)) = 36

CluesOf(o) == UNION {{o[r][c] : c \in DOMAIN o[r]} : r \in DOMAIN o}

\* The clue values the cell constructor knows.
KnownClue(v) == v.type = "str" /\ v.value \in {"", " ", "0", "1", "2", "3"}

\* The cell the spec gives for a clue value it knows.
ExpectedCell(s) ==
    CASE s \in {"", " "} -> "Any"
      [] s = "0" -> "Zero"
      [] s = "1" -> "One"
      [] s = "2" -> "Two"
      [] s = "3" -> "Three"

\* C21: the cell constructor maps "" and " " to Any and "0", "1", "2", "3"
\* to Zero, One, Two, Three, and a puzzle with any other clue value is
\* rejected with the error result MalformedClue.
C21_MalformedClue ==
    pc # "extract" =>
        IF \A v \in CluesOf(object) : KnownClue(v)
        THEN /\ pc = "extracted"
             /\ \A r \in DOMAIN object : \A c \in DOMAIN object[r] :
                   cells.rows[r - 1][c - 1] = ExpectedCell(object[r][c].value)
        ELSE pc = "MalformedClue"

\* The number of entries of a Vec of Vecs.
Entries(rows) ==
    Cardinality(UNION {{<<r, c>> : c \in DOMAIN rows[r]} : r \in DOMAIN rows})

\* C22: for cells of width W (the length of the first row) and height H
\* (the number of rows), solve starts from an edge grid of H + 1 rows of W
\* horizontal edges and H rows of W + 1 vertical edges,
\* W * (H + 1) + (W + 1) * H edges in all, every one Unknown.
C22_InitialGrid ==
    (pc = "fill_certain_values" /\ last = NoCall) =>
        LET W == VecLen(cells.rows[0])
            H == VecLen(cells.rows)
        IN  /\ DOMAIN edges.horizontal = 0..H
            /\ DOMAIN edges.vertical = 0..(H - 1)
            /\ \A r \in 0..H : DOMAIN edges.horizontal[r] = 0..(W - 1)
            /\ \A r \in 0..(H - 1) : DOMAIN edges.vertical[r] = 0..W
            /\ Entries(edges.horizontal) + Entries(edges.vertical)
                  = W * (H + 1) + (W + 1) * H
            /\ \A r \in 0..H : \A c \in 0..(W - 1) :
                  edges.horizontal[r][c] = "Unknown"
            /\ \A r \in 0..(H - 1) : \A c \in 0..W :
                  edges.vertical[r][c] = "Unknown"

\* solve starts on a grid of three columns and one row, with 10 edges.
C22_Witness ==
    /\ pc = "fill_certain_values"
    /\ last = NoCall
    /\ VecLen(cells.rows[0]) = 3
    /\ VecLen(cells.rows) = 1
    /\ Entries(edges.horizontal) + Entries(edges.vertical) = 10

\* The intersection one step from v in a direction, on the grid or not.
StepFrom(v, direction) ==
    CASE direction = "North" -> [row |-> v.row - 1, column |-> v.column]
      [] direction = "South" -> [row |-> v.row + 1, column |-> v.column]
      [] direction = "West" -> [row |-> v.row, column |-> v.column - 1]
      [] direction = "East" -> [row |-> v.row, column |-> v.column + 1]

\* C23: for every intersection of the grid and each of the four directions,
\* index_adjacent_intersection returns the adjacent intersection when it is
\* on the grid, and returns absent when the step leaves the grid, on the
\* north, west, east and south side alike.
C23_NeighbourIntersection ==
    \A v \in AllIntersections(edges) :
        \A direction \in {"North", "South", "West", "East"} :
            index_adjacent_intersection(v, direction) =
                IF StepFrom(v, direction) \in AllIntersections(edges)
                THEN Some(StepFrom(v, direction))
                ELSE None

\* ---------------------------------------------------------------- C24

\* C24 (as stated): for every input grid, the deduction rules applied with
\* any order of scanning cells, intersections, edges and corner directions
\* end in the edge grid solve returns with its row-major order.
C24_OrderIndependent ==
    pc = "done" => edges = solve(cells)

\* C24 (amended): for every input grid that has a valid solution, the rules
\* applied in any scan order end in the edge grid solve returns with its
\* row-major order, and on the way no intersection gets a third Line edge
\* (so that the walk of the loop check has one way to go whatever the order
\* of the directions).
C24_OrderIndependentOfValid ==
    /\ AtMostTwoLines(edges) \/ ~HasValidSolution(cells, edges)
    /\ pc = "done" => (edges = solve(cells) \/ ~HasValidSolution(cells, edges))

\* A solvable puzzle on which a scan order other than the row-major one was
\* taken: one edge is set, and it is not the edge solve sets first.
C24_Witness ==
    /\ HasValidSolution(cells, edges)
    /\ NumChanged(create_empty(size), edges) = 1
    /\ edges # solve_pass(cells, create_empty(size)).edges
    /\ LineEdges(solve(cells)) # {}

\* ---------------------------------------------------------------- C25

IsWrite(event) == event[1] = "write"

IsRead(event) == event[1] = "read"

IsOk(event) == event = <<"Ok">>

IsErr(event) == event = <<"Err">>

\* The last event before position i of the log that is not a line read (0
\* when there is none).
LastCallEvent(log, i) ==
    LET earlier == {j \in 1..(i - 1) : ~IsRead(log[j])}
    IN  IF earlier = {} THEN 0 ELSE CHOOSE j \in earlier : \A k \in earlier : k <= j

\* The lines ending in "ok\r\n" among the bytes port.read has returned.
OkLinesReceived(g) ==
    Cardinality({i \in 1..(Len(g.received) - 3) :
                    SubSeq(g.received, i, i + 3) = OkSuffix})

\* The exchanges that have returned Ok.
ExchangesAcknowledged(g) == Cardinality({i \in DOMAIN g.log : IsOk(g.log[i])})

\* C25: exchange returns Ok only when, after its write, read has returned a
\* line ending in "ok\r\n" (the line read last, every line before it since
\* the write not ending so), and that line is a line of the plotter: no
\* more exchanges have returned Ok than lines ending in "ok\r\n" were
\* received from the port. A message is written only when every message
\* written before was acknowledged by an Ok of its exchange, and an error
\* of the port or of read ends the sequence with the error returned:
\* nothing is written or read after it.
C25_ExchangeAcknowledged ==
    grbl # NoGRBL =>
        LET log == grbl.log
        IN  /\ \A i \in DOMAIN log :
                  IsOk(log[i]) =>
                      /\ i > 2
                      /\ IsRead(log[i - 1])
                      /\ ends_with(log[i - 1][2], OkSuffix)
                      /\ LastCallEvent(log, i) > 0
                      /\ IsWrite(log[LastCallEvent(log, i)])
                      /\ \A j \in (LastCallEvent(log, i) + 1)..(i - 2) :
                            ~ends_with(log[j][2], OkSuffix)
            /\ \A i \in DOMAIN log :
                  IsWrite(log[i]) =>
                      /\ ends_with(log[i][2], <<"\n">>)
                      /\ \/ LastCallEvent(log, i) = 0
                         \/ IsOk(log[LastCallEvent(log, i)])
            /\ \A i \in DOMAIN log : IsErr(log[i]) => i = Len(log)
            /\ pc = "io_error" <=> (log # <<>> /\ IsErr(log[Len(log)]))
            /\ ExchangesAcknowledged(grbl) <= OkLinesReceived(grbl)

\* ---------------------------------------------------------------- C26

\* The lines read has returned, in order.
ReturnedLines(log) ==
    LET reads == {i \in DOMAIN log : IsRead(log[i])}
        nth(n) == CHOOSE i \in reads : Cardinality({j \in reads : j <= i}) = n
    IN  [n \in 1..Cardinality(reads) |-> log[nth(n)][2]]

RECURSIVE Concat(_)
Concat(lines) ==
    IF lines = <<>> THEN <<>> ELSE Head(lines) \o Concat(Tail(lines))

\* The bytes 0 .. pos - 1 of the buffer.
Buffered(g) == [i \in 1..g.pos |-> g.buffer[i - 1]]

\* C26: the lines read has returned are the successive newline-terminated
\* lines of the bytes received from the port, each once, in order and
\* unaltered; the buffer holds from offset 0 exactly the bytes received and
\* not yet returned, and pos is their count.
C26_ReadLines ==
    grbl # NoGRBL =>
        LET lines == ReturnedLines(grbl.log)
        IN  /\ \A n \in DOMAIN lines :
                  /\ lines[n] # <<>>
                  /\ \A i \in DOMAIN lines[n] :
                        lines[n][i] = "\n" <=> i = Len(lines[n])
            /\ Concat(lines) \o Buffered(grbl) = grbl.received

\* ---------------------------------------------------------------- C27

\* The edges an edge grid contradicts a loop L on: Line edges off L and X
\* edges on L.
Contradicts(es, L) ==
    {e \in AllEdges(es) :
        \/ EdgeAt(es, e) = "Line" /\ e \notin L
        \/ EdgeAt(es, e) = "X" /\ e \in L}

\* C27: on a puzzle that has exactly one valid solution, in every state of
\* solve every Line edge lies on the solution loop and no X edge does.
C27_SoundOnUnique ==
    LET S == Solutions(cells, edges)
    IN  Cardinality(S) = 1 => \A L \in S : Contradicts(edges, L) = {}

\* solve has returned on a puzzle with exactly one valid solution, with
\* Line edges and X edges set.
C27_Witness ==
    /\ pc = "done"
    /\ Cardinality(Solutions(cells, edges)) = 1
    /\ \E e \in AllEdges(edges) : EdgeAt(edges, e) = "Line"
    /\ \E e \in AllEdges(edges) : EdgeAt(edges, e) = "X"

\* ---------------------------------------------------------------- C28

HasUnknown(es, S) == \E e \in S : EdgeAt(es, e) = "Unknown"

\* C28: the grid solve returned is a fixed point of the three deduction
\* families: fill_certain_values, check_constraints and check_loops each
\* report no change on it and leave it as it is. No clue cell with as many
\* Line edges as its clue, or with as many X edges as four minus its clue,
\* has an Unknown edge; no intersection with two Line edges has an Unknown
\* edge; and the path test is false on every Unknown edge.
C28_FixedPoint ==
    Returned =>
        /\ fill_certain_values(cells, edges) = NoChange(edges)
        /\ check_constraints(cells, edges) = NoChange(edges)
        /\ LET r == check_loops(edges)
           IN  ~r.changed /\ ~r.panic /\ ~r.diverges /\ r.edges = edges
        /\ \A c \in AllCells(cells) :
              \/ CellAt(cells, c) = "Any"
              \/ LET k == ExpectedLines(CellAt(cells, c))
                 IN  (\/ CountAround(edges, CellEdgeSet(c), "Line") = k
                      \/ CountAround(edges, CellEdgeSet(c), "X") = 4 - k)
                     => ~HasUnknown(edges, CellEdgeSet(c))
        /\ \A v \in AllIntersections(edges) :
              CountAround(edges, IncidentEdges(edges, v), "Line") = 2
                  => ~HasUnknown(edges, IncidentEdges(edges, v))
        /\ \A e \in AllEdges(edges) :
              EdgeAt(edges, e) = "Unknown" => ~would_close_loop(edges, e).result

\* solve has returned a grid that is partly solved: it has Line edges and
\* Unknown edges, a clue cell with all its Line edges, and an intersection
\* with two Line edges.
C28_Witness ==
    /\ pc = "done"
    /\ HasUnknown(edges, AllEdges(edges))
    /\ \E c \in AllCells(cells) :
          /\ CellAt(cells, c) # "Any"
          /\ CountAround(edges, CellEdgeSet(c), "Line") = ExpectedLines(CellAt(cells, c))
          /\ ExpectedLines(CellAt(cells, c)) > 0
    /\ \E v \in AllIntersections(edges) :
          CountAround(edges, IncidentEdges(edges, v), "Line") = 2

\* ---------------------------------------------------------------- C29

\* The intersections with exactly one Unknown edge.
OneUnknown(es) ==
    {v \in AllIntersections(es) :
        CountAround(es, IncidentEdges(es, v), "Unknown") = 1}

\* C29: in a grid solve returned in which every intersection has at most
\* two Line edges, no intersection has exactly one Unknown edge.
C29_NoSingleUnknown ==
    (Returned /\ AtMostTwoLines(edges)) => OneUnknown(edges) = {}
\* solve has returned a grid with at most two Line edges at every
\* intersection and with Unknown edges left, in which one intersection has
\* two Line edges and its other edges X, and another has all its edges X.
C29_Witness ==
    /\ pc = "done"
    /\ AtMostTwoLines(edges)
    /\ HasUnknown(edges, AllEdges(edges))
    /\ \E v \in AllIntersections(edges) :
          /\ CountAround(edges, IncidentEdges(edges, v), "Line") = 2
          /\ CountAround(edges, IncidentEdges(edges, v), "X") >= 1
          /\ ~HasUnknown(edges, IncidentEdges(edges, v))
    /\ \E v \in AllIntersections(edges) :
          /\ CountAround(edges, IncidentEdges(edges, v), "Line") = 0
          /\ CountAround(edges, IncidentEdges(edges, v), "X") >= 2
          /\ ~HasUnknown(edges, IncidentEdges(edges, v))

\* ---------------------------------------------------------------- C30

ClueCells(cs) == {c \in AllCells(cs) : CellAt(cs, c) # "Any"}

\* The cell rule of local fill sets the edge e of the clue cell c to value
\* in the grid es.
CellRule(cs, es, c, e, value) ==
    LET k == ExpectedLines(CellAt(cs, c))
        lines == CountAround(es, CellEdgeSet(c), "Line")
        xs == CountAround(es, CellEdgeSet(c), "X")
    IN  /\ e \in CellEdgeSet(c)
        /\ \/ lines = k /\ value = "X"
           \/ lines # k /\ xs = 4 - k /\ value = "Line"

\* Some clue cell of the grid es has an Unknown edge that the cell rule
\* sets.
CellRuleApplies(cs, es) ==
    \E c \in ClueCells(cs) :
        \E e \in CellEdgeSet(c) :
            /\ EdgeAt(es, e) = "Unknown"
            /\ \E value \in {"X", "Line"} : CellRule(cs, es, c, e, value)

\* C30: a call of fill_certain_values changes no edge, or changes one
\* Unknown edge in one of these cases: the edge is an edge of a clue cell
\* with k expected lines, and it becomes X when the cell has k Line edges,
\* or Line when it has not and has 4 - k X edges; or no clue cell has an edge
\* the cell rule sets, the edge is at an intersection with exactly two Line
\* edges, and it becomes X.
C30_LocalFill ==
    [][pc = "fill_certain_values" =>
          LET changed == {e \in AllEdges(edges) : EdgeAt(edges, e) # EdgeAt(edges', e)}
          IN  \/ changed = {}
              \/ \E e \in changed :
                    /\ changed = {e}
                    /\ EdgeAt(edges, e) = "Unknown"
                    /\ \/ \E c \in ClueCells(cells) :
                             CellRule(cells, edges, c, e, EdgeAt(edges', e))
                       \/ /\ ~CellRuleApplies(cells, edges)
                          /\ EdgeAt(edges', e) = "X"
                          /\ \E v \in AllIntersections(edges) :
                                /\ e \in IncidentEdges(edges, v)
                                /\ CountAround(edges, IncidentEdges(edges, v),
                                               "Line") = 2]_vars

\* Local fill has just changed an edge; the grid has an X edge of no clue
\* cell at an intersection with two Line edges, and a clue cell with all its
\* Line edges and an X edge.
C30_Witness ==
    /\ last = [routine |-> "fill_certain_values", changed |-> TRUE]
    /\ \E v \in AllIntersections(edges) :
          /\ CountAround(edges, IncidentEdges(edges, v), "Line") = 2
          /\ \E e \in IncidentEdges(edges, v) :
                /\ EdgeAt(edges, e) = "X"
                /\ \A c \in ClueCells(cells) : e \notin CellEdgeSet(c)
    /\ \E c \in ClueCells(cells) :
          /\ CountAround(edges, CellEdgeSet(c), "Line") = ExpectedLines(CellAt(cells, c))
          /\ CountAround(edges, CellEdgeSet(c), "X") >= 1

\* ------------------------------------------------ corners and quadrants

\* The geometry of the corner rules by coordinates: a corner direction
\* moves one step South or not, one step East or not.
StepSouth(d) == IF d.vertical = "South" THEN 1 ELSE 0

StepEast(d) == IF d.horizontal = "East" THEN 1 ELSE 0

CornerDirections == [horizontal : {"East", "West"}, vertical : {"North", "South"}]

OppositeCorner(d) ==
    CHOOSE o \in CornerDirections :
        o.horizontal # d.horizontal /\ o.vertical # d.vertical

\* The corner point of cell c in direction d, and the two edges of c that
\* meet there.
CellCorner(c, d) == [row |-> c.row + StepSouth(d), column |-> c.column + StepEast(d)]

CellCornerEdges(c, d) ==
    {[direction |-> "Horizontal", row |-> c.row + StepSouth(d), column |-> c.column],
     [direction |-> "Vertical", row |-> c.row, column |-> c.column + StepEast(d)]}

\* The two edge positions of the quadrant of intersection v in direction d
\* (on the grid or not), and the cell that lies in that quadrant.
QuadrantEdges(v, d) ==
    {[direction |-> "Horizontal", row |-> v.row, column |-> v.column - 1 + StepEast(d)],
     [direction |-> "Vertical", row |-> v.row - 1 + StepSouth(d), column |-> v.column]}

QuadrantCell(v, d) ==
    [row |-> v.row - 1 + StepSouth(d), column |-> v.column - 1 + StepEast(d)]

\* The edges of the quadrant that lie on the grid.
QuadrantOnGrid(es, v, d) == {e \in QuadrantEdges(v, d) : EdgeInBounds(es, e)}

QuadrantLines(es, v, d) == CountAround(es, QuadrantOnGrid(es, v, d), "Line")

\* The Cross count of a quadrant: its X edges and its off-grid positions.
QuadrantCrosses(es, v, d) ==
    CountAround(es, QuadrantOnGrid(es, v, d), "X")
    + (2 - Cardinality(QuadrantOnGrid(es, v, d)))

QuadrantUnknown(es, v, d) ==
    {e \in QuadrantOnGrid(es, v, d) : EdgeAt(es, e) = "Unknown"}

\* The constraint the text gives a clue cell at a corner with L Line and
\* X Cross edges.
CellEmits(cell, L, X) ==
    CASE (cell = "One" /\ L = 0 /\ X = 2) \/ (cell = "Two" /\ L = 1 /\ X = 1) -> "Line"
      [] (cell = "Two" /\ L = 0 /\ X = 1) \/ cell = "Three" -> "NoCorner"
      [] OTHER -> "Nothing"

CellEmitsAt(cs, es, c, d) ==
    CellEmits(CellAt(cs, c), CountAround(es, CellCornerEdges(c, d), "Line"),
              CountAround(es, CellCornerEdges(c, d), "X"))

\* What the corner in position i of the scan of cell c does: its constraint
\* applied at the opposite corner point of c, directed away from c.
CellCornerApplied(cs, es, c, i) ==
    LET d == CornerDirection_ALL[i]
        emitted == CellEmitsAt(cs, es, c, d)
    IN  IF emitted = "Nothing" THEN NoChange(es)
        ELSE apply_constraint(cs, es, emitted, CellCorner(c, OppositeCorner(d)),
                              OppositeCorner(d))

\* C31: whenever check_constraints is called, every cell emits at each of
\* its corners the constraint of the table (One with counts (0,2) and Two
\* with (1,1) Line, Two with (0,1) and Three with any counts NoCorner,
\* nothing otherwise), and what check_cell_constraints does to the grid is
\* what the first corner whose constraint changes an edge does when that
\* constraint is applied at the opposite corner point of the cell, directed
\* away from the cell.
C31_CellEmits ==
    pc = "check_constraints" =>
        \A c \in AllCells(cells) :
            /\ \A i \in DOMAIN CornerDirection_ALL :
                  LET d == CornerDirection_ALL[i]
                      emitted == CellEmitsAt(cells, edges, c, d)
                  IN  cell_constraint(CellAt(cells, c),
                          count_edges(edges, CellIndex_index_corner_edges(c, d)))
                      = IF emitted = "Nothing" THEN None ELSE Some(emitted)
            /\ LET hits == {i \in DOMAIN CornerDirection_ALL :
                               CellCornerApplied(cells, edges, c, i).changed}
               IN  check_cell_constraints(cells, edges, c)
                   = IF hits = {} THEN NoChange(edges)
                     ELSE CellCornerApplied(cells, edges, c, Min(hits))

\* check_constraints is called on a grid in which a One cell has a corner
\* with two X edges and a Three cell a corner with a Line edge, and the
\* constraint of some cell sets an edge.
C31_Witness ==
    /\ pc = "check_constraints"
    /\ \E c \in AllCells(cells), d \in CornerDirections :
          CellAt(cells, c) = "One" /\ CellEmitsAt(cells, edges, c, d) = "Line"
    /\ \E c \in AllCells(cells), d \in CornerDirections :
          /\ CellAt(cells, c) = "Three"
          /\ CountAround(edges, CellCornerEdges(c, d), "Line") >= 1
    /\ \E c \in AllCells(cells) : check_cell_constraints(cells, edges, c).changed

\* The constraint the text gives a quadrant with L Line and X Cross edges.
IntersectionEmits(L, X) ==
    CASE L = 1 /\ X = 0 -> "NoCorner"
      [] L = 1 /\ X = 1 -> "Line"
      [] L = 0 /\ X = 2 -> "NoLine"
      [] OTHER -> "Nothing"

IntersectionEmitsAt(es, v, d) ==
    IntersectionEmits(QuadrantLines(es, v, d), QuadrantCrosses(es, v, d))

\* What the quadrant in position i of the scan of intersection v does: its
\* constraint applied at v to the opposite quadrant.
QuadrantApplied(cs, es, v, i) ==
    LET d == CornerDirection_ALL[i]
        emitted == IntersectionEmitsAt(es, v, d)
    IN  IF emitted = "Nothing" THEN NoChange(es)
        ELSE apply_constraint(cs, es, emitted, v, OppositeCorner(d))

\* C32: whenever check_constraints is called, every intersection emits for
\* each of its quadrants the constraint of the table ((1,0) NoCorner, (1,1)
\* Line, (0,2) NoLine, nothing otherwise, an off-grid edge counted as a
\* Cross), and what check_intersection_constraints does to the grid is what
\* the first quadrant whose constraint changes an edge does when that
\* constraint is applied at the same intersection to the opposite quadrant.
C32_IntersectionEmits ==
    pc = "check_constraints" =>
        \A v \in AllIntersections(edges) :
            /\ \A i \in DOMAIN CornerDirection_ALL :
                  LET d == CornerDirection_ALL[i]
                      emitted == IntersectionEmitsAt(edges, v, d)
                  IN  intersection_constraint(
                          count_edges(edges, index_adjacent_corner_edges(edges, v, d)))
                      = IF emitted = "Nothing" THEN None ELSE Some(emitted)
            /\ LET hits == {i \in DOMAIN CornerDirection_ALL :
                               QuadrantApplied(cells, edges, v, i).changed}
               IN  check_intersection_constraints(cells, edges, v)
                   = IF hits = {} THEN NoChange(edges)
                     ELSE QuadrantApplied(cells, edges, v, Min(hits))

\* check_constraints is called on a grid in which the three constraints are
\* emitted, NoLine by a quadrant with an edge off the grid and an X edge on
\* it, and the constraint of some quadrant sets an edge.
C32_Witness ==
    /\ pc = "check_constraints"
    /\ \A k \in {"NoCorner", "Line", "NoLine"} :
          \E v \in AllIntersections(edges), d \in CornerDirections :
              IntersectionEmitsAt(edges, v, d) = k
    /\ \E v \in AllIntersections(edges), d \in CornerDirections :
          /\ IntersectionEmitsAt(edges, v, d) = "NoLine"
          /\ Cardinality(QuadrantOnGrid(edges, v, d)) = 1
    /\ \E v \in AllIntersections(edges) :
          check_intersection_constraints(cells, edges, v).changed

Constraints == {"Line", "NoCorner", "NoLine"}

\* The value the text has apply_constraint give the remaining Unknown edge
\* of a quadrant with L Line and X Cross edges.
LocalValue(constraint, L, X) ==
    CASE (constraint = "Line" /\ L = 1 /\ X = 0)
         \/ (constraint = "NoCorner" /\ L = 1 /\ X = 0)
         \/ (constraint = "NoLine" /\ L = 0 /\ X = 1) -> "X"
      [] (constraint = "Line" /\ L = 0 /\ X = 1)
         \/ (constraint = "NoLine" /\ L = 1 /\ X = 0) -> "Line"
      [] OTHER -> "Nothing"

LocalValueAt(es, constraint, v, d) ==
    LocalValue(constraint, QuadrantLines(es, v, d), QuadrantCrosses(es, v, d))

\* The constraints check_constraints applies on the grid es, as triples of
\* constraint, intersection and direction: those the cells and the
\* intersections emit.
Emitted(cs, es) ==
    {<<CellEmitsAt(cs, es, c, d), CellCorner(c, OppositeCorner(d)), OppositeCorner(d)>> :
        c \in AllCells(cs), d \in CornerDirections}
    \cup {<<IntersectionEmitsAt(es, v, d), v, OppositeCorner(d)>> :
        v \in AllIntersections(es), d \in CornerDirections}

\* C33: whenever check_constraints is called, apply_constraint with any
\* constraint at any intersection and quadrant does the following. In the
\* five cases of the table the quadrant has exactly one Unknown edge, that
\* edge gets the value of the table, no other edge changes and true is
\* returned. In every other case apply_constraint itself sets nothing: its
\* result is that of the cascade into the cell of the quadrant, run on the
\* unchanged grid, or no change when that cell is off the grid.
C33_ApplyConstraint ==
    pc = "check_constraints" =>
        \A constraint \in Constraints, v \in AllIntersections(edges),
           d \in CornerDirections :
            LET r == apply_constraint(cells, edges, constraint, v, d)
                value == LocalValueAt(edges, constraint, v, d)
                unknown == QuadrantUnknown(edges, v, d)
            IN  IF value # "Nothing"
                THEN /\ Cardinality(unknown) = 1
                     /\ r = Changed(EdgeSet(edges, CHOOSE e \in unknown : TRUE, value))
                ELSE IF QuadrantCell(v, d) \in AllCells(cells)
                THEN r = apply_constraint_to_cell(cells, edges, constraint,
                                                  QuadrantCell(v, d), d)
                ELSE r = NoChange(edges)

\* check_constraints is called on a grid on which one emitted constraint
\* meets a quadrant of the table and sets its Unknown edge, and another
\* cascades into a clue cell of the grid.
C33_Witness ==
    /\ pc = "check_constraints"
    /\ \E t \in Emitted(cells, edges) :
          /\ t[1] # "Nothing"
          /\ LocalValueAt(edges, t[1], t[2], t[3]) # "Nothing"
          /\ apply_constraint(cells, edges, t[1], t[2], t[3]).changed
    /\ \E t \in Emitted(cells, edges) :
          /\ t[1] # "Nothing"
          /\ LocalValueAt(edges, t[1], t[2], t[3]) = "Nothing"
          /\ QuadrantCell(t[2], t[3]) \in AllCells(cells)
          /\ CellAt(cells, QuadrantCell(t[2], t[3])) \in {"One", "Two", "Three"}

UnknownOf(es, S) == {e \in S : EdgeAt(es, e) = "Unknown"}

\* The result r leaves the grid es with one Unknown edge of S set to
\* value, or unchanged when S has no Unknown edge.
SetsOneOf(es, r, S, value) ==
    IF UnknownOf(es, S) = {} THEN r = NoChange(es)
    ELSE \E e \in UnknownOf(es, S) : r = Changed(EdgeSet(es, e, value))

\* The emitted constraints that set nothing in their quadrant and cascade
\* into a cell of the grid with the clue value.
CascadesInto(cs, es, value) ==
    {t \in Emitted(cs, es) :
        /\ t[1] # "Nothing"
        /\ LocalValueAt(es, t[1], t[2], t[3]) = "Nothing"
        /\ QuadrantCell(t[2], t[3]) \in AllCells(cs)
        /\ CellAt(cs, QuadrantCell(t[2], t[3])) = value}

\* C34: whenever check_constraints is called, a constraint that cascades
\* into a One cell sets one Unknown edge of the far corner to X under Line,
\* one Unknown edge of the near corner to X under NoLine, and nothing under
\* NoCorner; no other edge changes, so the cascade does not go on beyond
\* the cell. A constraint that cascades into an Any or a Zero cell changes
\* nothing.
C34_CascadeIntoOne ==
    pc = "check_constraints" =>
        \A constraint \in Constraints, c \in AllCells(cells), d \in CornerDirections :
            LET r == apply_constraint_to_cell(cells, edges, constraint, c, d)
                far == CellCornerEdges(c, d)
                near == CellCornerEdges(c, OppositeCorner(d))
            IN  CASE CellAt(cells, c) = "One" /\ constraint = "Line" ->
                        SetsOneOf(edges, r, far, "X")
                  [] CellAt(cells, c) = "One" /\ constraint = "NoLine" ->
                        SetsOneOf(edges, r, near, "X")
                  [] CellAt(cells, c) \in {"One", "Any", "Zero"} -> r = NoChange(edges)
                  [] OTHER -> TRUE

\* check_constraints is called on a grid on which an emitted Line
\* constraint cascades into a One cell and crosses out a far edge, and on
\* which a constraint cascades into an Any or a Zero cell and changes
\* nothing although, applied at the far corner of that cell, it would set
\* an edge.
C34_Witness ==
    /\ pc = "check_constraints"
    /\ \E t \in CascadesInto(cells, edges, "One") :
          /\ t[1] = "Line"
          /\ apply_constraint(cells, edges, t[1], t[2], t[3]).changed
    /\ \E t \in CascadesInto(cells, edges, "Any") \cup CascadesInto(cells, edges, "Zero") :
          /\ ~apply_constraint(cells, edges, t[1], t[2], t[3]).changed
          /\ apply_constraint(cells, edges, t[1],
                              CellCorner(QuadrantCell(t[2], t[3]), t[3]), t[3]).changed

\* The two corner directions beside d, the East one first.
AdjacentCorners(d) ==
    LET beside == {a \in CornerDirections : a # d /\ a # OppositeCorner(d)}
    IN  << CHOOSE a \in beside : a.horizontal = "East",
           CHOOSE a \in beside : a.horizontal = "West" >>

\* A Line constraint applied at the corner of cell c in the adjacent
\* direction in position i, directed away from c.
AdjacentApplied(cs, es, c, d, i) ==
    apply_constraint(cs, es, "Line", CellCorner(c, AdjacentCorners(d)[i]),
                     AdjacentCorners(d)[i])

\* C35: whenever check_constraints is called, a constraint that cascades
\* into a Two cell with L Line and X Cross edges in the far corner does the
\* following. Line: with L > 0 one Unknown far edge becomes X, else with
\* X > 0 one Unknown far edge becomes Line, else Line is applied at the far
\* corner point in the same direction. NoCorner: it is applied unchanged at
\* the far corner point. NoLine: with X > 0 one Unknown near edge becomes
\* Line; else Line is applied at the two adjacent corner points, each
\* directed away from the cell, the second only when the first changed no
\* edge, and NoLine is applied at the far corner point only when neither
\* changed an edge.
C35_CascadeIntoTwo ==
    pc = "check_constraints" =>
        \A constraint \in Constraints, c \in AllCells(cells), d \in CornerDirections :
            CellAt(cells, c) = "Two" =>
                LET r == apply_constraint_to_cell(cells, edges, constraint, c, d)
                    far == CellCornerEdges(c, d)
                    near == CellCornerEdges(c, OppositeCorner(d))
                    L == CountAround(edges, far, "Line")
                    X == CountAround(edges, far, "X")
                    onward == apply_constraint(cells, edges, constraint,
                                               CellCorner(c, d), d)
                IN  CASE constraint = "Line" /\ L > 0 -> SetsOneOf(edges, r, far, "X")
                      [] constraint = "Line" /\ L = 0 /\ X > 0 ->
                            SetsOneOf(edges, r, far, "Line")
                      [] constraint = "NoLine" /\ X > 0 ->
                            SetsOneOf(edges, r, near, "Line")
                      [] constraint = "NoLine" /\ X = 0 ->
                            IF AdjacentApplied(cells, edges, c, d, 1).changed
                            THEN r = AdjacentApplied(cells, edges, c, d, 1)
                            ELSE IF AdjacentApplied(cells, edges, c, d, 2).changed
                            THEN r = AdjacentApplied(cells, edges, c, d, 2)
                            ELSE r = onward
                      [] OTHER -> r = onward

\* check_constraints is called on a grid on which an emitted NoLine
\* constraint cascades into a Two cell without an X edge in the far corner
\* and a Line constraint at either adjacent corner point would set an
\* edge, and on which an emitted Line or NoCorner constraint goes through
\* a Two cell and sets an edge beyond its far corner point.
C35_Witness ==
    /\ pc = "check_constraints"
    /\ \E t \in CascadesInto(cells, edges, "Two") :
          /\ t[1] = "NoLine"
          /\ CountAround(edges, CellCornerEdges(QuadrantCell(t[2], t[3]), t[3]), "X") = 0
          /\ \A i \in 1..2 :
                AdjacentApplied(cells, edges, QuadrantCell(t[2], t[3]), t[3], i).changed
    /\ \E t \in CascadesInto(cells, edges, "Two") :
          /\ t[1] \in {"Line", "NoCorner"}
          /\ UnknownOf(edges, CellCornerEdges(QuadrantCell(t[2], t[3]), t[3]))
             = CellCornerEdges(QuadrantCell(t[2], t[3]), t[3])
          /\ apply_constraint(cells, edges, t[1], t[2], t[3]).changed

\* C36: whenever check_constraints is called, a constraint that cascades
\* into a Three cell does the following. Line and NoCorner alike: one
\* Unknown edge of the far corner becomes Line and nothing else happens.
\* NoLine: one Unknown edge of the near corner becomes Line; only when the
\* near corner has no Unknown edge is a Line constraint applied at the far
\* corner point in the same direction.
C36_CascadeIntoThree ==
    pc = "check_constraints" =>
        \A constraint \in Constraints, c \in AllCells(cells), d \in CornerDirections :
            CellAt(cells, c) = "Three" =>
                LET r == apply_constraint_to_cell(cells, edges, constraint, c, d)
                    far == CellCornerEdges(c, d)
                    near == CellCornerEdges(c, OppositeCorner(d))
                IN  IF constraint \in {"Line", "NoCorner"}
                    THEN SetsOneOf(edges, r, far, "Line")
                    ELSE IF UnknownOf(edges, near) # {}
                    THEN SetsOneOf(edges, r, near, "Line")
                    ELSE r = apply_constraint(cells, edges, "Line", CellCorner(c, d), d)

\* check_constraints is called on a grid on which an emitted Line
\* constraint cascades into a Three cell and draws a far edge, and on which
\* an emitted NoLine constraint cascades into a Three cell whose near
\* edges are known and sets an edge beyond the far corner point.
C36_Witness ==
    /\ pc = "check_constraints"
    /\ \E t \in CascadesInto(cells, edges, "Three") :
          /\ t[1] = "Line"
          /\ apply_constraint(cells, edges, t[1], t[2], t[3]).changed
    /\ \E t \in CascadesInto(cells, edges, "Three") :
          /\ t[1] = "NoLine"
          /\ UnknownOf(edges, QuadrantOnGrid(edges, t[2], t[3])) = {}
          /\ apply_constraint(cells, edges, t[1], t[2], t[3]).changed

\* The constraints check_constraints has to apply on the grid es.
Cascades(cs, es) == {t \in Emitted(cs, es) : t[1] # "Nothing"}

LongerSide(dim) == IF dim.width >= dim.height THEN dim.width ELSE dim.height

\* C37: whenever check_constraints is called, the cascade of every
\* constraint a cell or an intersection emits ends, the number of cells
\* entered along one chain of nested calls (the Line branches of a split
\* in a Two cell counted) is at most the longer side of the grid, and the
\* cascade changes one edge when it reports a change and none otherwise.
C37_CascadeDepth ==
    pc = "check_constraints" =>
        \A t \in Cascades(cells, edges) :
            /\ cascade_depth(cells, edges, t[1], t[2], t[3])
                  \in 0..LongerSide(get_size(cells))
            /\ LET r == apply_constraint(cells, edges, t[1], t[2], t[3])
               IN  /\ ~r.panic
                   /\ NumChanged(edges, r.edges) = IF r.changed THEN 1 ELSE 0

\* check_constraints is called on a grid of three columns on which the
\* cascade of a NoLine constraint enters three cells, one inside another,
\* which on two rows it can do only through the Line branch of a split.
C37_Witness ==
    /\ pc = "check_constraints"
    /\ LongerSide(get_size(cells)) = 3
    /\ \E t \in Cascades(cells, edges) :
          /\ t[1] = "NoLine"
          /\ cascade_depth(cells, edges, t[1], t[2], t[3]) = 3

RouteReturned == pc \in {"routed", "route_abort", "route_hang"}

\* C38: when the Line edges of the grid solve returned are one simple
\* closed loop, get_route returns a route of as many entries as there are
\* Line edges, and one more: the intersections of the loop, each once,
\* every entry joined to the next by a Line edge of its own, and the first
\* entry again at the end. No Line edge joins the first entry to
\* intersection (0,0), the initial previous of the walk, so the first step
\* is the one a walk without a previous would take.
C38_RouteOfLoop ==
    (RouteReturned /\ IsSingleLoop(LineEdges(edges))) =>
        LET L == LineEdges(edges)
            n == Cardinality(L)
            at == [i \in DOMAIN route |-> RouteIndex(route[i])]
            step(i) == {e \in L : EndPoints(e) = {at[i], at[i + 1]}}
        IN  /\ pc = "routed"
            /\ Len(route) = n + 1
            /\ route[n + 1] = route[1]
            /\ {at[i] : i \in 1..n} = OnLine(edges)
            /\ \A i, j \in 1..n : i # j => at[i] # at[j]
            /\ \A i \in 1..n : Cardinality(step(i)) = 1
            /\ UNION {step(i) : i \in 1..n} = L
            /\ \A e \in L : at[1] \in EndPoints(e) =>
                  [row |-> 0, column |-> 0] \notin EndPoints(e) \ {at[1]}
            /\ follow_line(edges, DefaultIntersectionIndex, at[1]).next = Some(at[2])

\* The route of a loop of at least six Line edges that does not pass
\* through intersection (0,0).
C38_Witness ==
    /\ pc = "routed"
    /\ IsSingleLoop(LineEdges(edges))
    /\ Cardinality(LineEdges(edges)) >= 6
    /\ Len(route) = Cardinality(LineEdges(edges)) + 1
    /\ \A i \in DOMAIN route : route[i] # <<0, 0>>

====
